---- MODULE Spec2Model ----
(***************************************************************************)
(* The agentic coding loop of src/lib/coding-loop: the tag parser          *)
(* (tag-parser.ts), the stream multiplexer and control loop of             *)
(* CodingLoop.process / CodingLoop.streamResponse (coding-loop.ts).        *)
(*                                                                         *)
(* Text is modelled at the level the regular expressions of the source     *)
(* work on: a document is a sequence of characters, each character a       *)
(* one-character string.  Indices are 1-based; JavaScript's index -1       *)
(* ("not found") is 0 here.                                                *)
(***************************************************************************)
EXTENDS Integers, Sequences, FiniteSets, TLC

\* The full-width less-than sign U+FF1C that escapeDyadTags writes: one character.
FWLT ==
    "U+FF1C"

\* The grave accent U+0060 of a markdown code fence: one character.
BACKTICK ==
    "U+0060"

(***************************************************************************)
(* String literals of the source.                                          *)
(***************************************************************************)
ThinkOpen ==
    <<"<", "t", "h", "i", "n", "k", ">">>
ThinkClose ==
    <<"<", "/", "t", "h", "i", "n", "k", ">">>
DyadOpenPrefix ==
    <<"<", "d", "y", "a", "d">>
DyadClosePrefix ==
    <<"<", "/", "d", "y", "a", "d">>
EscapedOpenPrefix ==
    <<FWLT, "d", "y", "a", "d">>
EscapedClosePrefix ==
    <<FWLT, "/", "d", "y", "a", "d">>
WriteOpen ==
    <<"<", "d", "y", "a", "d", "-", "w", "r", "i", "t", "e">>
WriteClose ==
    <<"<", "/", "d", "y", "a", "d", "-", "w", "r", "i", "t", "e", ">">>
RenameOpen ==
    <<"<", "d", "y", "a", "d", "-", "r", "e", "n", "a", "m", "e", " ", "f", "r", "o", "m", "=", "\"">>
RenameTo ==
    <<"\"", " ", "t", "o", "=", "\"">>
RenameClose ==
    <<"<", "/", "d", "y", "a", "d", "-", "r", "e", "n", "a", "m", "e", ">">>
DeleteOpen ==
    <<"<", "d", "y", "a", "d", "-", "d", "e", "l", "e", "t", "e", " ", "p", "a", "t", "h", "=", "\"">>
DeleteClose ==
    <<"<", "/", "d", "y", "a", "d", "-", "d", "e", "l", "e", "t", "e", ">">>
AddDependencyOpen ==
    <<"<", "d", "y", "a", "d", "-", "a", "d", "d", "-", "d", "e", "p", "e", "n", "d", "e", "n", "c", "y", " ", "p", "a", "c", "k", "a", "g", "e", "s", "=", "\"">>
AddDependencyOpenEnd ==
    <<"\"", ">">>
AddDependencyClose ==
    <<"<", "/", "d", "y", "a", "d", "-", "a", "d", "d", "-", "d", "e", "p", "e", "n", "d", "e", "n", "c", "y", ">">>
SearchReplaceOpen ==
    <<"<", "d", "y", "a", "d", "-", "s", "e", "a", "r", "c", "h", "-", "r", "e", "p", "l", "a", "c", "e">>
SearchReplaceClose ==
    <<"<", "/", "d", "y", "a", "d", "-", "s", "e", "a", "r", "c", "h", "-", "r", "e", "p", "l", "a", "c", "e", ">">>
SqlOpen ==
    <<"<", "d", "y", "a", "d", "-", "e", "x", "e", "c", "u", "t", "e", "-", "s", "q", "l">>
SqlClose ==
    <<"<", "/", "d", "y", "a", "d", "-", "e", "x", "e", "c", "u", "t", "e", "-", "s", "q", "l", ">">>
CommandOpen ==
    <<"<", "d", "y", "a", "d", "-", "c", "o", "m", "m", "a", "n", "d", " ", "t", "y", "p", "e", "=", "\"">>
CommandClose ==
    <<"<", "/", "d", "y", "a", "d", "-", "c", "o", "m", "m", "a", "n", "d", ">">>
SummaryOpen ==
    <<"<", "d", "y", "a", "d", "-", "c", "h", "a", "t", "-", "s", "u", "m", "m", "a", "r", "y", ">">>
SummaryClose ==
    <<"<", "/", "d", "y", "a", "d", "-", "c", "h", "a", "t", "-", "s", "u", "m", "m", "a", "r", "y", ">">>
PathAttr ==
    <<"p", "a", "t", "h", "=", "\"">>
DescriptionAttr ==
    <<"d", "e", "s", "c", "r", "i", "p", "t", "i", "o", "n", "=", "\"">>
Fence ==
    <<BACKTICK, BACKTICK, BACKTICK>>
CmdRebuild ==
    <<"r", "e", "b", "u", "i", "l", "d">>
CmdRestart ==
    <<"r", "e", "s", "t", "a", "r", "t">>
CmdRefresh ==
    <<"r", "e", "f", "r", "e", "s", "h">>

(***************************************************************************)
(* Primitives of JavaScript strings and of the regular-expression engine.  *)
(***************************************************************************)
\* const v = e; followed by the statements F that use v.
With(e, F(_)) ==
    F(e)

Min(S) ==
    CHOOSE x \in S : \A y \in S : x <= y

Max(S) ==
    CHOOSE x \in S : \A y \in S : x >= y

\* The least index of a set of indices, or 0 (not found) when there is none.
Least(S) ==
    IF S = {} THEN 0 ELSE Min(S)

UpperCase ==
    <<"A", "B", "C", "D", "E", "F", "G", "H", "I", "J", "K", "L", "M",
      "N", "O", "P", "Q", "R", "S", "T", "U", "V", "W", "X", "Y", "Z">>

LowerCase ==
    <<"a", "b", "c", "d", "e", "f", "g", "h", "i", "j", "k", "l", "m",
      "n", "o", "p", "q", "r", "s", "t", "u", "v", "w", "x", "y", "z">>

\* The case folding of the i flag of a regular expression, on one character.
ToLower(c) ==
    With({k \in 1..Len(UpperCase) : UpperCase[k] = c}, LAMBDA K :
        IF K = {} THEN c ELSE LowerCase[Min(K)])

\* Whether the literal pat occurs in s at index i (ci: ignoring case).
MatchAt(s, i, pat, ci) ==
    /\ i >= 1
    /\ i + Len(pat) - 1 <= Len(s)
    /\ \A k \in 1..Len(pat) :
          IF ci THEN ToLower(s[i + k - 1]) = pat[k] ELSE s[i + k - 1] = pat[k]

\* The index of the first occurrence of the literal pat in s at or after from, or 0.
IndexOf(s, pat, from, ci) ==
    Least({j \in from..(Len(s) - Len(pat) + 1) : MatchAt(s, j, pat, ci)})

\* The index of the first character ch in s at or after from, or 0.
FirstOf(s, ch, from) ==
    Least({j \in from..Len(s) : s[j] = ch})

\* The white space String.prototype.trim removes, among the characters of the model.
WhiteSpace ==
    {" ", "\n", "\t", "\r"}

\* String.prototype.trim
Trim(s) ==
    With({j \in 1..Len(s) : s[j] \notin WhiteSpace}, LAMBDA keep :
        IF keep = {} THEN <<>> ELSE SubSeq(s, Min(keep), Max(keep)))

\* String.prototype.split(sep) for a one-character separator: the list of pieces.
RECURSIVE Split(_, _)
Split(s, sep) ==
    With(FirstOf(s, sep, 1), LAMBDA k :
        IF k = 0 THEN <<s>>
        ELSE <<SubSeq(s, 1, k - 1)>> \o Split(SubSeq(s, k + 1, Len(s)), sep))

\* Array.prototype.join(sep)
RECURSIVE Join(_, _)
Join(lines, sep) ==
    IF Len(lines) = 0 THEN <<>>
    ELSE IF Len(lines) = 1 THEN lines[1]
    ELSE lines[1] \o <<sep>> \o Join(Tail(lines), sep)

\* String.prototype.replace(/pat/g, rep) for a literal pattern: every
\* occurrence, left to right, not overlapping.
RECURSIVE ReplaceAll(_, _, _)
ReplaceAll(s, pat, rep) ==
    With(IndexOf(s, pat, 1, FALSE), LAMBDA k :
        IF k = 0 THEN s
        ELSE SubSeq(s, 1, k - 1) \o rep
             \o ReplaceAll(SubSeq(s, k + Len(pat), Len(s)), pat, rep))

\* An optional value (undefined or null in the source when has is FALSE).
None ==
    [has |-> FALSE, val |-> <<>>]

Some(v) ==
    [has |-> TRUE, val |-> v]

(***************************************************************************)
(* tag-parser.ts                                                           *)
(***************************************************************************)
normalizePath(filePath) ==
    [j \in 1..Len(filePath) |-> IF filePath[j] = "\\" THEN "/" ELSE filePath[j]]

\* if (lines[0]?.startsWith("```")) lines.shift()
ShiftFence(lines) ==
    IF MatchAt(lines[1], 1, Fence, FALSE) THEN Tail(lines) ELSE lines

\* A stripCodeFences that leaves the last line alone.
PopFenceNever(lines) ==
    lines

\* if (lines[lines.length - 1]?.startsWith("```")) lines.pop()
PopFence(lines) ==
    IF Len(lines) > 0 /\ MatchAt(lines[Len(lines)], 1, Fence, FALSE)
    THEN SubSeq(lines, 1, Len(lines) - 1)
    ELSE lines

stripCodeFences(content) ==
    Join(PopFence(ShiftFence(Split(content, "\n"))), "\n")

\* The result of RegExp.prototype.exec: index 0 is null; end is the lastIndex
\* the g flag leaves (the index of the first character after the match); g1 and
\* g2 are the capture groups the callers read.
NoMatch ==
    [index |-> 0, end |-> 0, g1 |-> <<>>, g2 |-> <<>>]

\* "([^"]+)" with the opening quote just before index p: the index of the
\* closing quote, or 0 when there is none or the value is empty.
QuotedEnd(s, p) ==
    With(FirstOf(s, "\"", p), LAMBDA q : IF q = p THEN 0 ELSE q)

\* /<NAME([^>]*)>([\s\S]*?)<\/NAME>/ tried at index i: [^>]* ends at the first
\* ">" and the lazy body at the first closing marker after it.
TagMatchAt(s, open, close, ci, i) ==
    IF ~MatchAt(s, i, open, ci) THEN NoMatch
    ELSE With(FirstOf(s, ">", i + Len(open)), LAMBDA g :
         IF g = 0 THEN NoMatch
         ELSE With(IndexOf(s, close, g + 1, ci), LAMBDA c :
              IF c = 0 THEN NoMatch
              ELSE [index |-> i, end |-> c + Len(close),
                    g1 |-> SubSeq(s, i + Len(open), g - 1),
                    g2 |-> SubSeq(s, g + 1, c - 1)]))

\* /<NAME attr="([^"]+)"[^>]*>([\s\S]*?)<\/NAME>/ tried at index i (open ends
\* with the attribute's opening quote); g1 is the attribute's value.
AttrTagMatchAt(s, open, close, i) ==
    IF ~MatchAt(s, i, open, FALSE) THEN NoMatch
    ELSE With(QuotedEnd(s, i + Len(open)), LAMBDA q :
         IF q = 0 THEN NoMatch
         ELSE With(FirstOf(s, ">", q + 1), LAMBDA g :
              IF g = 0 THEN NoMatch
              ELSE With(IndexOf(s, close, g + 1, FALSE), LAMBDA c :
                   IF c = 0 THEN NoMatch
                   ELSE [index |-> i, end |-> c + Len(close),
                         g1 |-> SubSeq(s, i + Len(open), q - 1),
                         g2 |-> SubSeq(s, g + 1, c - 1)])))

\* /<dyad-rename from="([^"]+)" to="([^"]+)"[^>]*>([\s\S]*?)<\/dyad-rename>/
\* tried at index i; g1 is from, g2 is to.
RenameMatchAt(s, i) ==
    IF ~MatchAt(s, i, RenameOpen, FALSE) THEN NoMatch
    ELSE With(QuotedEnd(s, i + Len(RenameOpen)), LAMBDA q1 :
         IF q1 = 0 \/ ~MatchAt(s, q1, RenameTo, FALSE) THEN NoMatch
         ELSE With(QuotedEnd(s, q1 + Len(RenameTo)), LAMBDA q2 :
              IF q2 = 0 THEN NoMatch
              ELSE With(FirstOf(s, ">", q2 + 1), LAMBDA g :
                   IF g = 0 THEN NoMatch
                   ELSE With(IndexOf(s, RenameClose, g + 1, FALSE), LAMBDA c :
                        IF c = 0 THEN NoMatch
                        ELSE [index |-> i, end |-> c + Len(RenameClose),
                              g1 |-> SubSeq(s, i + Len(RenameOpen), q1 - 1),
                              g2 |-> SubSeq(s, q1 + Len(RenameTo), q2 - 1)]))))

\* /<dyad-add-dependency packages="([^"]+)">[^<]*<\/dyad-add-dependency>/
\* tried at index i: [^<]* ends at the first "<", where the closing marker must be.
AddDependencyMatchAt(s, i) ==
    IF ~MatchAt(s, i, AddDependencyOpen, FALSE) THEN NoMatch
    ELSE With(QuotedEnd(s, i + Len(AddDependencyOpen)), LAMBDA q :
         IF q = 0 \/ ~MatchAt(s, q, AddDependencyOpenEnd, FALSE) THEN NoMatch
         ELSE With(FirstOf(s, "<", q + Len(AddDependencyOpenEnd)), LAMBDA c :
              IF c = 0 \/ ~MatchAt(s, c, AddDependencyClose, FALSE) THEN NoMatch
              ELSE [index |-> i, end |-> c + Len(AddDependencyClose),
                    g1 |-> SubSeq(s, i + Len(AddDependencyOpen), q - 1),
                    g2 |-> <<>>]))

\* /<dyad-command type="([^"]+)"[^>]*><\/dyad-command>/ tried at index i.
CommandMatchAt(s, i) ==
    IF ~MatchAt(s, i, CommandOpen, FALSE) THEN NoMatch
    ELSE With(QuotedEnd(s, i + Len(CommandOpen)), LAMBDA q :
         IF q = 0 THEN NoMatch
         ELSE With(FirstOf(s, ">", q + 1), LAMBDA g :
              IF g = 0 \/ ~MatchAt(s, g + 1, CommandClose, FALSE) THEN NoMatch
              ELSE [index |-> i, end |-> g + 1 + Len(CommandClose),
                    g1 |-> SubSeq(s, i + Len(CommandOpen), q - 1),
                    g2 |-> <<>>]))

\* /<dyad-chat-summary>([\s\S]*?)<\/dyad-chat-summary>/ tried at index i.
SummaryMatchAt(s, i) ==
    IF ~MatchAt(s, i, SummaryOpen, FALSE) THEN NoMatch
    ELSE With(IndexOf(s, SummaryClose, i + Len(SummaryOpen), FALSE), LAMBDA c :
         IF c = 0 THEN NoMatch
         ELSE [index |-> i, end |-> c + Len(SummaryClose),
               g1 |-> SubSeq(s, i + Len(SummaryOpen), c - 1), g2 |-> <<>>])

\* The regular expressions of the extractors, tried at index i.
WriteMatchAt(s, i) ==
    TagMatchAt(s, WriteOpen, WriteClose, TRUE, i)

SearchReplaceMatchAt(s, i) ==
    TagMatchAt(s, SearchReplaceOpen, SearchReplaceClose, TRUE, i)

SqlMatchAt(s, i) ==
    TagMatchAt(s, SqlOpen, SqlClose, FALSE, i)

DeleteMatchAt(s, i) ==
    AttrTagMatchAt(s, DeleteOpen, DeleteClose, i)

\* regex.exec(s) with lastIndex = from: the leftmost match at or after from.
Exec(M(_, _), s, from) ==
    With(Least({i \in from..Len(s) : M(s, i).index # 0}), LAMBDA i :
        IF i = 0 THEN NoMatch ELSE M(s, i))

\* while ((match = regex.exec(s)) !== null): the matches in order.
RECURSIVE ExecAll(_, _, _)
ExecAll(M(_, _), s, from) ==
    With(Exec(M, s, from), LAMBDA m :
        IF m.index = 0 THEN <<>> ELSE <<m>> \o ExecAll(M, s, m.end))

\* attrRegex.exec(attributesString)?.[1] for /name="([^"]+)"/ (attr ends with
\* the opening quote): the first place where a non-empty quoted value follows.
AttrValue(attributesString, attr) ==
    With(Least({j \in 1..Len(attributesString) :
                  /\ MatchAt(attributesString, j, attr, FALSE)
                  /\ QuotedEnd(attributesString, j + Len(attr)) # 0}), LAMBDA j :
        IF j = 0 THEN None
        ELSE Some(SubSeq(attributesString, j + Len(attr),
                         QuotedEnd(attributesString, j + Len(attr)) - 1)))

\* The body of the loop of getWriteTags and getSearchReplaceTags for one match.
PathTagOf(m) ==
    With(AttrValue(m.g1, PathAttr), LAMBDA pathMatch :
        IF pathMatch.has
        THEN <<[path |-> normalizePath(pathMatch.val),
                content |-> stripCodeFences(Trim(m.g2)),
                description |-> AttrValue(m.g1, DescriptionAttr)]>>
        ELSE <<>>)

\* A loop that puts each record in front of the ones found before.
RECURSIVE PathTagsNewestFirst(_)
PathTagsNewestFirst(ms) ==
    IF Len(ms) = 0 THEN <<>> ELSE PathTagsNewestFirst(Tail(ms)) \o PathTagOf(Head(ms))

RECURSIVE PathTags(_)
PathTags(ms) ==
    IF Len(ms) = 0 THEN <<>> ELSE PathTagOf(Head(ms)) \o PathTags(Tail(ms))

getWriteTags(fullResponse) ==
    PathTags(ExecAll(WriteMatchAt, fullResponse, 1))

RenameTagsOf(ms) ==
    [k \in 1..Len(ms) |->
        [from |-> normalizePath(ms[k].g1), to |-> normalizePath(ms[k].g2)]]

getRenameTags(fullResponse) ==
    RenameTagsOf(ExecAll(RenameMatchAt, fullResponse, 1))

DeletePathsOf(ms) ==
    [k \in 1..Len(ms) |-> normalizePath(ms[k].g1)]

getDeletePaths(fullResponse) ==
    DeletePathsOf(ExecAll(DeleteMatchAt, fullResponse, 1))

\* packages.push(...match[1].split(" ").filter(Boolean)) for every match.
RECURSIVE Packages(_)
Packages(ms) ==
    IF Len(ms) = 0 THEN <<>>
    ELSE SelectSeq(Split(Head(ms).g1, " "), LAMBDA t : Len(t) > 0) \o Packages(Tail(ms))

getAddDependencyPackages(fullResponse) ==
    Packages(ExecAll(AddDependencyMatchAt, fullResponse, 1))

getSearchReplaceTags(fullResponse) ==
    PathTags(ExecAll(SearchReplaceMatchAt, fullResponse, 1))

SqlQueriesOf(ms) ==
    [k \in 1..Len(ms) |->
        [content |-> stripCodeFences(Trim(ms[k].g2)),
         description |-> AttrValue(ms[k].g1, DescriptionAttr)]]

getSqlQueryTags(fullResponse) ==
    SqlQueriesOf(ExecAll(SqlMatchAt, fullResponse, 1))

CommandTypes ==
    {CmdRebuild, CmdRestart, CmdRefresh}

\* if (["rebuild", "restart", "refresh"].includes(type)) commands.push(type)
RECURSIVE CommandsOf(_)
CommandsOf(ms) ==
    IF Len(ms) = 0 THEN <<>>
    ELSE (IF Head(ms).g1 \in CommandTypes THEN <<Head(ms).g1>> ELSE <<>>)
         \o CommandsOf(Tail(ms))

getCommandTags(fullResponse) ==
    CommandsOf(ExecAll(CommandMatchAt, fullResponse, 1))

\* An extractor that returns the last Summary of the document.
getChatSummaryLast(fullResponse) ==
    With(ExecAll(SummaryMatchAt, fullResponse, 1), LAMBDA ms :
        IF Len(ms) = 0 THEN None ELSE Some(Trim(ms[Len(ms)].g1)))

getChatSummary(fullResponse) ==
    With(Exec(SummaryMatchAt, fullResponse, 1), LAMBDA match :
        IF match.index = 0 THEN None ELSE Some(Trim(match.g1)))

parseResponse(fullResponse) ==
    [writeTags         |-> getWriteTags(fullResponse),
     renameTags        |-> getRenameTags(fullResponse),
     deletePaths       |-> getDeletePaths(fullResponse),
     addDependencies   |-> getAddDependencyPackages(fullResponse),
     searchReplaceTags |-> getSearchReplaceTags(fullResponse),
     sqlQueries        |-> getSqlQueryTags(fullResponse),
     commands          |-> getCommandTags(fullResponse),
     chatSummary       |-> getChatSummary(fullResponse)]

\* /<dyad-write[^>]*>/ tried at index i: the lastIndex it leaves, or 0.
OpenMatchEnd(text, i) ==
    IF ~MatchAt(text, i, WriteOpen, FALSE) THEN 0
    ELSE With(FirstOf(text, ">", i + Len(WriteOpen)), LAMBDA g :
         IF g = 0 THEN 0 ELSE g + 1)

\* The loop of hasUnclosedWriteTag from lastIndex = from on: lastOpenIndex
\* after the last match.
RECURSIVE LastOpenIndex(_, _, _)
LastOpenIndex(text, from, lastOpenIndex) ==
    With(Least({i \in from..Len(text) : OpenMatchEnd(text, i) # 0}), LAMBDA index :
        IF index = 0 THEN lastOpenIndex
        ELSE LastOpenIndex(text, OpenMatchEnd(text, index), index))

\* A detector that looks for the closing marker in the whole document.
hasUnclosedWriteTagAnyClose(text) ==
    With(LastOpenIndex(text, 1, 0), LAMBDA lastOpenIndex :
        IF lastOpenIndex = 0 THEN FALSE
        ELSE IndexOf(text, WriteClose, 1, FALSE) = 0)

hasUnclosedWriteTag(text) ==
    With(LastOpenIndex(text, 1, 0), LAMBDA lastOpenIndex :
        IF lastOpenIndex = 0 THEN FALSE
        ELSE IndexOf(SubSeq(text, lastOpenIndex, Len(text)), WriteClose, 1, FALSE) = 0)

escapeDyadTags(text) ==
    ReplaceAll(ReplaceAll(text, DyadOpenPrefix, EscapedOpenPrefix),
               DyadClosePrefix, EscapedClosePrefix)

(***************************************************************************)
(* file-operations: node:path on POSIX, and safeJoin.                      *)
(***************************************************************************)
\* process.cwd(), which path.resolve falls back to for a relative base.
Cwd ==
    <<"/", "w">>

\* The segments of a path as path.resolve normalises them: empty segments and
\* "." are dropped, ".." drops the segment before it (none at the root).
RECURSIVE NormalizeSegments(_, _)
NormalizeSegments(segs, acc) ==
    IF Len(segs) = 0 THEN acc
    ELSE NormalizeSegments(Tail(segs),
            IF Head(segs) \in {<<>>, <<".">>} THEN acc
            ELSE IF Head(segs) # <<".", ".">> THEN Append(acc, Head(segs))
            ELSE IF Len(acc) = 0 THEN acc
            ELSE SubSeq(acc, 1, Len(acc) - 1))

\* path.resolve(from, to): to if it is absolute, else from/to (under the
\* working directory if from is relative), normalised, with no trailing slash.
pathResolve(from, to) ==
    <<"/">> \o Join(NormalizeSegments(Split(
        IF Len(to) > 0 /\ to[1] = "/" THEN to
        ELSE IF Len(from) > 0 /\ from[1] = "/" THEN from \o <<"/">> \o to
        ELSE Cwd \o <<"/">> \o from \o <<"/">> \o to, "/"), <<>>), "/")

\* path.dirname of a normalised absolute path.
pathDirname(p) ==
    pathResolve(p, <<".", ".">>)

\* safeJoin: Some(joined), or None when it throws "Path traversal attempt detected".
safeJoin(basePath, relativePath) ==
    With(pathResolve(pathResolve(basePath, <<>>), relativePath), LAMBDA joined :
        IF MatchAt(joined, 1, pathResolve(basePath, <<>>), FALSE)
        THEN Some(joined) ELSE None)

(***************************************************************************)
(* file-operations: node:fs on a filesystem of files and directories.      *)
(***************************************************************************)
\* fs.existsSync
Exists(fs, p) ==
    p \in fs.files \cup fs.dirs

\* The path p lies below the directory d.
Below(d, p) ==
    p # d /\ MatchAt(p, 1, IF d = <<"/">> THEN d ELSE d \o <<"/">>, FALSE)

\* fs.unlinkSync of a file, fs.rmdirSync(recursive) of a directory.
Remove(fs, p) ==
    [files |-> {q \in fs.files : q # p /\ ~Below(p, q)},
     dirs  |-> {q \in fs.dirs : q # p /\ ~Below(p, q)}]

\* A directory and the directories above it.
RECURSIVE AncestorsOf(_)
AncestorsOf(d) ==
    IF d = <<"/">> THEN {d} ELSE {d} \cup AncestorsOf(pathDirname(d))

\* fs.mkdirSync(d, { recursive: true }): None when it throws (a file is in the way).
mkdirSync(fs, d) ==
    IF AncestorsOf(d) \cap fs.files # {} THEN None
    ELSE Some([files |-> fs.files, dirs |-> fs.dirs \cup AncestorsOf(d)])

\* fs.renameSync(from, to) of an existing from (rename(2)): None when it throws.
renameSync(fs, from, to) ==
    IF from = to THEN Some(fs)
    ELSE IF from \in fs.files
    THEN (IF to \in fs.dirs THEN None
          ELSE Some([files |-> (fs.files \ {from}) \cup {to}, dirs |-> fs.dirs]))
    ELSE IF to \in fs.files \/ Below(from, to)
            \/ (to \in fs.dirs /\ \E q \in fs.files \cup fs.dirs : Below(to, q))
    THEN None
    ELSE Some([files |-> {q \in fs.files : ~Below(from, q)}
                         \cup {to \o SubSeq(q, Len(from) + 1, Len(q)) :
                                  q \in {x \in fs.files : Below(from, x)}},
               dirs  |-> {q \in fs.dirs : q # from /\ ~Below(from, q)}
                         \cup {to \o SubSeq(q, Len(from) + 1, Len(q)) :
                                  q \in {x \in fs.dirs : x = from \/ Below(from, x)}}])

\* fs.writeFileSync(p, content) with the directory of p in place: None when
\* it throws (p is a directory).
writeFileSync(fs, p) ==
    IF p \in fs.dirs THEN None
    ELSE Some([files |-> fs.files \cup {p}, dirs |-> fs.dirs])

(***************************************************************************)
(* Bounds of the model.                                                    *)
(***************************************************************************)
\* The largest number of segments of a path given to safeJoin on its own.
MaxSegments ==
    3

\* The largest number of operations of one ParsedResponse given to applyFileChanges.
MaxOps ==
    3

\* The largest maxContinuationAttempts a caller configures.
MaxCeiling ==
    2

\* The largest number of pieces a document given to the tag parser is made of.
MaxPieces ==
    3

\* The largest number of tags a document written from whole tags is made of.
MaxTags ==
    3

\* maxContinuationAttempts of the constructor's defaults.
DefaultMaxContinuationAttempts ==
    2

(***************************************************************************)
(* The fragments a producer (StreamTextFunction) yields.                   *)
(***************************************************************************)
AttrPathA ==
    <<" ", "p", "a", "t", "h", "=", "\"", "a", "\"", ">">>

\* A Write tag cut off inside its body, and the rest of it.
TxtWriteCut ==
    WriteOpen \o AttrPathA \o <<"x">>

TxtWriteRest ==
    <<"y">> \o WriteClose

\* A Write tag with fenced content followed by a Summary.
TxtWriteAndSummary ==
    WriteOpen \o AttrPathA \o <<"\n">> \o Fence \o <<"\n", "x", "\n">> \o Fence
    \o <<"\n">> \o WriteClose \o SummaryOpen \o <<" ", "s", " ">> \o SummaryClose

\* A Write tag narrated in reasoning text, whole and split over three fragments.
TxtNarratedWrite ==
    WriteOpen \o AttrPathA \o <<"z">> \o WriteClose

TxtSplit1 ==
    SubSeq(WriteOpen, 1, 3)

TxtSplit2 ==
    SubSeq(WriteOpen, 4, Len(WriteOpen)) \o AttrPathA \o <<"z">> \o SubSeq(WriteClose, 1, 4)

TxtSplit3 ==
    SubSeq(WriteClose, 5, Len(WriteClose))

Answer(t) ==
    [type |-> "text-delta", text |-> t]

Reasoning(t) ==
    [type |-> "reasoning-delta", text |-> t]

\* A part of another type; text is <<>> when the part carries none.
Part(ty, t) ==
    [type |-> ty, text |-> t]

\* The streams the producer may answer the first invocation with.
InitialStreams ==
    { <<Answer(<<"x">>)>>,
      <<Reasoning(<<"a">>), Reasoning(<<"b">>), Answer(<<"c">>)>>,
      <<Answer(<<"a">>), Answer(TxtWriteCut)>>,
      <<Answer(TxtWriteAndSummary)>>,
      <<Reasoning(TxtSplit1), Reasoning(TxtSplit2), Reasoning(TxtSplit3)>>,
      <<Reasoning(TxtNarratedWrite), Answer(<<"x">>)>>,
      <<Part("reasoning-start", <<>>), Reasoning(<<"a">>), Part("reasoning-end", <<>>),
        Answer(<<"c">>)>>,
      <<Reasoning(<<"a">>), Part("tool-call", <<"t">>), Reasoning(<<>>), Answer(<<"c">>)>>,
      <<Reasoning(<<"a">>)>> }

\* The streams the producer may answer a continuation with.
ContinuationStreams ==
    { <<Answer(TxtWriteRest)>>,
      <<Answer(<<"y">>)>>,
      <<>>,
      <<Reasoning(<<"a">>), Answer(TxtWriteRest)>> }

\* The chunk observers (ProcessOptions.onChunk) of the model: none given, one
\* that returns the document unchanged, one that returns it with a mark appended.
Observers ==
    {"none", "identity", "mark"}

\* await onChunk({ fullResponse, incrementalChunk })
Observer(kind, accumulated, incrementalChunk) ==
    IF kind = "mark" THEN accumulated \o <<"!">> ELSE accumulated

(***************************************************************************)
(* The documents given to the tag parser on its own.                       *)
(***************************************************************************)
Pieces ==
    { WriteOpen \o AttrPathA,       \* an opening marker with a path
      WriteClose,                   \* a closing marker
      <<"x">>,                      \* prose
      WriteOpen,                    \* an opening marker cut before its ">"
      <<">">> }

RECURSIVE DocumentsOf(_)
DocumentsOf(n) ==
    IF n = 0 THEN {<<>>}
    ELSE DocumentsOf(n - 1) \cup {d \o p : d \in DocumentsOf(n - 1), p \in Pieces}

Documents ==
    DocumentsOf(MaxPieces)

(***************************************************************************)
(* Documents written from whole tags: what a model answers with. A piece   *)
(* is one tag or a stretch of prose; attr is the value of the attribute    *)
(* the extractor of its kind reads, body the text between the markers.     *)
(***************************************************************************)
Tag(family, kind, attr, body, chars) ==
    [family |-> family, kind |-> kind, attr |-> attr, body |-> body, text |-> chars]

\* <kind path="...">body</kind>, the path attribute left out when has is FALSE.
PathTag(family, kind, open, close, path, body) ==
    Tag(family, kind, path, body,
        open \o (IF path.has THEN <<" ">> \o PathAttr \o path.val \o <<"\"">> ELSE <<>>)
        \o <<">">> \o body \o close)

\* <kind attr="value"></kind>, open ending with the opening quote.
AttrTag(family, kind, open, close, value) ==
    Tag(family, kind, Some(value), <<>>, open \o value \o <<"\"", ">">> \o close)

\* <kind>body</kind>
BodyTag(family, kind, open, close, body) ==
    Tag(family, kind, None, body, open \o <<">">> \o body \o close)

\* The pieces, in families: a document is written from the pieces of one family.
TagPieces ==
    { AttrTag("packages", "add-dependency", AddDependencyOpen, AddDependencyClose,
              <<"a", " ", "b">>),
      AttrTag("packages", "add-dependency", AddDependencyOpen, AddDependencyClose,
              <<"c">>),
      AttrTag("packages", "add-dependency", AddDependencyOpen, AddDependencyClose,
              <<" ", "a", " ", " ", "c">>),
      AttrTag("packages", "add-dependency", AddDependencyOpen, AddDependencyClose,
              <<"a", "\t", "b">>),
      BodyTag("summary", "chat-summary", SubSeq(SummaryOpen, 1, Len(SummaryOpen) - 1),
              SummaryClose, <<" ", "s", "\n">>),
      BodyTag("summary", "chat-summary", SubSeq(SummaryOpen, 1, Len(SummaryOpen) - 1),
              SummaryClose, <<"t">>),
      Tag("summary", "prose", None, <<>>, <<"x">>),
      PathTag("paths", "write", WriteOpen, WriteClose, Some(<<"a">>), <<"y">>),
      PathTag("paths", "write", WriteOpen, WriteClose, Some(<<"b", "\\", "c">>), <<"z">>),
      PathTag("paths", "write", WriteOpen, WriteClose, None, <<"q">>),
      PathTag("paths", "search-replace", SearchReplaceOpen, SearchReplaceClose,
              Some(<<"a">>), <<"y">>),
      PathTag("paths", "search-replace", SearchReplaceOpen, SearchReplaceClose,
              None, <<"q">>),
      AttrTag("commands", "command", CommandOpen, CommandClose, CmdRebuild),
      AttrTag("commands", "command", CommandOpen, CommandClose, CmdRefresh),
      AttrTag("commands", "command", CommandOpen, CommandClose, <<"x">>),
      AttrTag("commands", "delete", DeleteOpen, DeleteClose, <<"a">>),
      BodyTag("commands", "execute-sql", SqlOpen, SqlClose, <<"q">>),
      Tag("commands", "prose", None, <<>>, <<"x">>),
      PathTag("fences", "write", WriteOpen, WriteClose, Some(<<"a">>), <<"z">>),
      PathTag("fences", "write", WriteOpen, WriteClose, Some(<<"a">>),
              Fence \o <<"t", "s", "\n", "z", "\n">> \o Fence),
      PathTag("fences", "write", WriteOpen, WriteClose, Some(<<"a">>),
              <<"\n">> \o Fence \o <<"\n", "z", "\n">> \o Fence \o <<"\n">>),
      PathTag("fences", "write", WriteOpen, WriteClose, Some(<<"a">>), <<" ", "z">>),
      PathTag("fences", "write", WriteOpen, WriteClose, Some(<<"a">>),
              Fence \o <<"\n">> \o Fence \o <<"\n">> \o Fence),
      PathTag("fences", "search-replace", SearchReplaceOpen, SearchReplaceClose,
              Some(<<"a">>), <<"y", "\n">> \o Fence \o <<"\n", "z">>),
      BodyTag("fences", "execute-sql", SqlOpen, SqlClose, <<"z", "\n">> \o Fence) }

RECURSIVE TagListsOf(_, _)
TagListsOf(family, n) ==
    IF n = 0 THEN {<<>>}
    ELSE TagListsOf(family, n - 1)
         \cup {Append(l, p) : l \in TagListsOf(family, n - 1),
                              p \in {q \in TagPieces : q.family = family}}

\* The documents of up to MaxTags pieces of one family.
TagLists ==
    UNION {TagListsOf(f, MaxTags) : f \in {p.family : p \in TagPieces}}

RECURSIVE TextOf(_)
TextOf(l) ==
    IF Len(l) = 0 THEN <<>> ELSE Head(l).text \o TextOf(Tail(l))

(***************************************************************************)
(* The roots and paths given to safeJoin on its own.                       *)
(***************************************************************************)
Roots ==
    { <<"/", "r">>, <<"/", "r", "/">>, <<"/">>, <<"/", "r", "/", "s">>, <<"r">> }

PathSegments ==
    { <<".", ".">>, <<".">>, <<"a">>, <<"s">>, <<"r", "2">> }

RECURSIVE SegmentListsOf(_)
SegmentListsOf(n) ==
    IF n = 0 THEN {<<>>}
    ELSE SegmentListsOf(n - 1)
         \cup {Append(l, g) : l \in SegmentListsOf(n - 1), g \in PathSegments}

\* The relative paths of up to MaxSegments segments, and the same with a
\* leading slash.
RelativePaths ==
    {Join(l, "/") : l \in SegmentListsOf(MaxSegments)}
    \cup {<<"/">> \o Join(l, "/") : l \in SegmentListsOf(MaxSegments)}

(***************************************************************************)
(* What applyFileChanges is given: the filesystem, the operations, the     *)
(* callbacks and the uploads.                                              *)
(***************************************************************************)
\* The filesystem before the call: the project root /r with the files a, c
\* and f and the directory d holding b, its sibling /r2, and an uploaded
\* file /u outside the root.
InitialFiles ==
    [files |-> { <<"/", "r", "/", "a">>, <<"/", "r", "/", "c">>, <<"/", "r", "/", "f">>,
                 <<"/", "r", "/", "d", "/", "b">>, <<"/", "u">> },
     dirs  |-> { <<"/">>, <<"/", "r">>, <<"/", "r", "/", "d">>, <<"/", "r", "2">> }]

\* fileUploadsMap: the placeholder k of an uploaded file, the placeholder m of
\* one that is gone.
FileUploads ==
    (<<"k">> :> [filePath |-> <<"/", "u">>, originalName |-> <<"u">>])
    @@ (<<"m">> :> [filePath |-> <<"/", "v">>, originalName |-> <<"v">>])

DeleteOp(path) ==
    [kind |-> "delete", path |-> path, to |-> <<>>, content |-> <<>>]

RenameOp(from, to) ==
    [kind |-> "rename", path |-> from, to |-> to, content |-> <<>>]

WriteOp(path, content) ==
    [kind |-> "write", path |-> path, to |-> <<>>, content |-> content]

\* The operations a ParsedResponse is made of, in the order they take in it.
Candidates ==
    << DeleteOp(<<"a">>),
       DeleteOp(<<"a">>),
       DeleteOp(<<"n">>),
       DeleteOp(<<"d">>),
       DeleteOp(<<".", ".", "/", "x">>),
       RenameOp(<<"c">>, <<"a">>),
       RenameOp(<<"a">>, <<"b">>),
       RenameOp(<<"a">>, <<"f", "/", "x">>),
       RenameOp(<<"n">>, <<"m", "/", "y">>),
       RenameOp(<<"n">>, <<".", ".", "/", "x">>),
       WriteOp(<<"a">>, <<"c">>),
       WriteOp(<<"n", "/", "y">>, <<"c">>),
       WriteOp(<<".", ".", "/", "r", "2", "/", "x">>, <<"c">>),
       WriteOp(<<".", ".", "/", "x">>, <<"c">>),
       WriteOp(<<"d">>, <<"c">>),
       WriteOp(<<"a">>, <<" ", "k", "\n">>),
       WriteOp(<<"a">>, <<"m">>) >>

\* The candidates of one kind among those chosen, in order.
OpsOf(chosen, kind) ==
    With(SelectSeq([k \in 1..Len(Candidates) |-> k],
                   LAMBDA k : k \in chosen /\ Candidates[k].kind = kind),
         LAMBDA ks : [j \in 1..Len(ks) |-> Candidates[ks[j]]])

\* ApplyFileChangesOptions: the ParsedResponse of the chosen candidates, the
\* callbacks that throw, and the uploads map (None: not given).
ApplyOptions(chosen, throwing, uploads) ==
    [parsedResponse |->
        [deletePaths |-> [j \in 1..Len(OpsOf(chosen, "delete")) |->
                             OpsOf(chosen, "delete")[j].path],
         renameTags |-> [j \in 1..Len(OpsOf(chosen, "rename")) |->
                             [from |-> OpsOf(chosen, "rename")[j].path,
                              to |-> OpsOf(chosen, "rename")[j].to]],
         writeTags |-> [j \in 1..Len(OpsOf(chosen, "write")) |->
                             [path |-> OpsOf(chosen, "write")[j].path,
                              content |-> OpsOf(chosen, "write")[j].content]],
         addDependencies |-> <<<<"p">>>>],
     throwing |-> throwing,
     fileUploadsMap |-> uploads]

\* The callbacks and uploads a caller gives.
CallerCallbacks ==
    { [throwing |-> {}, uploads |-> Some(FileUploads)],
      [throwing |-> {}, uploads |-> None],
      [throwing |-> {"log"}, uploads |-> Some(FileUploads)],
      [throwing |-> {"warn"}, uploads |-> Some(FileUploads)],
      [throwing |-> {"error"}, uploads |-> Some(FileUploads)],
      [throwing |-> {"log", "warn", "error"}, uploads |-> None] }

(***************************************************************************)
(* State.                                                                  *)
(***************************************************************************)
VARIABLES
    config,               \* this.config, as the constructor leaves it
    onChunk,              \* options.onChunk: an element of Observers
    aborted,              \* abortSignal.aborted
    pc,                   \* where process is: idle, invoke (await streamText),
                          \* next (await the next part), observer (await onChunk),
                          \* autofix (await runAutoFixLoop), done, failed
    phase,                \* which call of streamResponse: initial, continuation
    stream,               \* the parts the producer has still to yield (after a
                          \* break: the parts that are never consumed)
    fullResponse,         \* process: let fullResponse
    wasAborted,           \* process: let wasAborted
    autoFixAttempts,      \* process: let autoFixAttempts
    continuationAttempts, \* process: let continuationAttempts
    srFullResponse,       \* streamResponse: let fullResponse
    inThinkingBlock,      \* streamResponse: let inThinkingBlock
    pending,              \* the value the awaited onChunk call resolves to
    events,               \* the types of the events given to onEvent, in order
    result,               \* the ProcessResult returned (returned = FALSE: none yet)
    thrown,               \* process has thrown
    \* history variables
    invocations,          \* the number of calls of streamText
    abortObserved,        \* process has read abortSignal.aborted as true before a
                          \* further step (fragment boundary, loop head, auto-fix test)
    abortedMidStream,     \* the signal was set while a producer stream was consumed
    consumed,             \* the parts processed in this call of streamResponse
    emitted,              \* the chunks emitted in this call of streamResponse, joined
    emittedBefore,        \* the chunks emitted in the earlier calls, joined
    docBefore,            \* fullResponse of process when this call started
    lastRound,            \* the last completed continuation round
    observed,             \* the calls of options.onChunk: how many, and the
                          \* arguments of the last one
    emissions,            \* the non-empty chunks emitted: how many, and the last one
    autoFixRuns,          \* the number of calls of runAutoFixLoop
    suspended,            \* two calls of process on one instance: the parameters
                          \* and local variables of the call that is not
                          \* running (turn = 0: there is no second call)
    \* the tag parser on its own
    text,                 \* the document given
    detected,             \* hasUnclosedWriteTag(text) and parseResponse(text),
                          \* once applied
    pieces,               \* history: the tags and prose the document was written
                          \* from, in order (<<>>: not recorded)
    \* file-operations
    appPath,              \* the project root given
    relativePath,         \* safeJoin on its own: the path given
    joined,               \* safeJoin on its own: what it returned, once applied
    options,              \* applyFileChanges: its options
    fsys,                 \* the filesystem
    cursor,               \* the operation the three loops are at, counted over
                          \* deletePaths, renameTags, writeTags; 0: not called
    writtenFiles,         \* applyFileChanges: const writtenFiles
    renamedFiles,         \* applyFileChanges: const renamedFiles
    deletedFiles,         \* applyFileChanges: const deletedFiles
    errors,               \* applyFileChanges: const errors (the messages)
    manifest,             \* the FileOperationResult returned (returned = FALSE: none yet)
    \* history variables
    trace,                \* the iterations of the three loops, in order
    touched,              \* the calls of node:fs made, with their paths
    joinedPaths           \* the paths safeJoin has returned

procVars ==
    <<config, onChunk, aborted, pc, phase, stream, fullResponse, wasAborted,
      autoFixAttempts, continuationAttempts, srFullResponse, inThinkingBlock, pending,
      events, result, thrown, invocations, abortObserved, abortedMidStream, consumed,
      emitted, emittedBefore, docBefore, lastRound, observed, emissions, autoFixRuns,
      suspended>>

tagVars ==
    <<text, detected, pieces>>

pathVars ==
    <<appPath, relativePath, joined>>

applyVars ==
    <<pathVars, options, fsys, cursor, writtenFiles, renamedFiles, deletedFiles,
      errors, manifest, trace, touched, joinedPaths>>

vars ==
    <<procVars, tagVars, applyVars>>

(***************************************************************************)
(* CodingLoop: constructor and process.                                    *)
(***************************************************************************)
\* The configurations a caller passes: has = FALSE is a key left out.
CallerConfigs ==
    [chatMode : {"build", "ask"},
     enableAutoFix : {[has |-> FALSE, val |-> TRUE], [has |-> TRUE, val |-> FALSE]},
     maxContinuationAttempts :
        {[has |-> FALSE, val |-> 0]} \cup {[has |-> TRUE, val |-> n] : n \in 0..MaxCeiling}]

\* this.config = { enableAutoFix: true, ..., maxContinuationAttempts: 2, ...config }
Constructor(c) ==
    [chatMode |-> c.chatMode,
     enableAutoFix |-> IF c.enableAutoFix.has THEN c.enableAutoFix.val ELSE TRUE,
     maxContinuationAttempts |->
        IF c.maxContinuationAttempts.has THEN c.maxContinuationAttempts.val
        ELSE DefaultMaxContinuationAttempts]

NoResult ==
    [returned |-> FALSE, fullResponse |-> <<>>, parsedResponse |-> parseResponse(<<>>),
     wasTruncated |-> FALSE, autoFixAttempts |-> 0, wasAborted |-> FALSE]

\* A result that never reports truncation.
ProcessResultNeverTruncated(doc, fixes, ab) ==
    [returned |-> TRUE, fullResponse |-> doc, parsedResponse |-> parseResponse(doc),
     wasTruncated |-> FALSE, autoFixAttempts |-> fixes,
     wasAborted |-> ab]

\* return { fullResponse, parsedResponse, wasTruncated, autoFixAttempts, wasAborted }
ProcessResult(doc, fixes, ab) ==
    [returned |-> TRUE, fullResponse |-> doc, parsedResponse |-> parseResponse(doc),
     wasTruncated |-> hasUnclosedWriteTag(doc), autoFixAttempts |-> fixes,
     wasAborted |-> ab]

NotDetected ==
    [done |-> FALSE, unclosed |-> FALSE, parsed |-> parseResponse(<<>>)]

NoRound ==
    [n |-> 0, before |-> <<>>, output |-> <<>>, after |-> <<>>]

NoCall ==
    [calls |-> 0, fullResponse |-> <<>>, incrementalChunk |-> <<>>]

NoEmission ==
    [count |-> 0, chunk |-> <<>>]

\* A continuation loop that does not read the abort signal.
ContinuationGuardIgnoringAbort(doc, attempts, ab) ==
    /\ hasUnclosedWriteTag(doc)
    /\ attempts < config.maxContinuationAttempts

\* A continuation loop that goes one round past the ceiling.
ContinuationGuardOffByOne(doc, attempts, ab) ==
    /\ hasUnclosedWriteTag(doc)
    /\ attempts <= config.maxContinuationAttempts
    /\ ~ab

\* The condition of the continuation loop.
ContinuationGuard(doc, attempts, ab) ==
    /\ hasUnclosedWriteTag(doc)
    /\ attempts < config.maxContinuationAttempts
    /\ ~ab

\* An auto-fix stage that is entered in every chat mode.
AutoFixGuardAnyMode(ab) ==
    /\ config.enableAutoFix
    /\ ~ab

\* The condition of the auto-fix stage.
AutoFixGuard(ab) ==
    /\ config.enableAutoFix
    /\ config.chatMode = "build"
    /\ ~ab

\* Whether the two conditions, evaluated left to right, read the signal as set.
GuardsObserveAbort(doc, attempts, ab) ==
    /\ ab
    /\ \/ hasUnclosedWriteTag(doc) /\ attempts < config.maxContinuationAttempts
       \/ config.enableAutoFix /\ config.chatMode = "build"

runAutoFixLoop(doc) ==
    [fullResponse |-> doc, attempts |-> 0]

\* A multiplexer that never emits the close marker.
MuxStepNoClose(part, thinking) ==
    LET closes == thinking /\ part.type \notin {"reasoning-delta", "reasoning-end", "reasoning-start"}
        think1 == IF closes THEN FALSE ELSE thinking
    IN  IF part.type = "text-delta" /\ part.text # <<>>
        THEN [chunk |-> part.text, inThinkingBlock |-> think1]
        ELSE IF part.type = "reasoning-delta" /\ part.text # <<>>
        THEN [chunk |-> (IF ~think1 THEN ThinkOpen ELSE <<>>) \o escapeDyadTags(part.text),
              inThinkingBlock |-> TRUE]
        ELSE [chunk |-> <<>>, inThinkingBlock |-> think1]

\* One pass of the body of the for await loop of streamResponse over part,
\* up to "if (!chunk) continue": the chunk and the new inThinkingBlock.
MuxStep(part, thinking) ==
    LET closes == thinking /\ part.type \notin {"reasoning-delta", "reasoning-end", "reasoning-start"}
        chunk1 == IF closes THEN ThinkClose ELSE <<>>
        think1 == IF closes THEN FALSE ELSE thinking
    IN  IF part.type = "text-delta" /\ part.text # <<>>
        THEN [chunk |-> chunk1 \o part.text, inThinkingBlock |-> think1]
        ELSE IF part.type = "reasoning-delta" /\ part.text # <<>>
        THEN [chunk |-> (IF ~think1 THEN ThinkOpen ELSE chunk1) \o escapeDyadTags(part.text),
              inThinkingBlock |-> TRUE]
        ELSE [chunk |-> chunk1, inThinkingBlock |-> think1]

NotJoined ==
    [done |-> FALSE, result |-> None]

NoManifest ==
    [returned |-> FALSE, writtenFiles |-> <<>>, renamedFiles |-> <<>>,
     deletedFiles |-> <<>>, addedPackages |-> <<>>, hasChanges |-> FALSE,
     error |-> None]

\* applyFileChanges is not in use.
ApplierIdle ==
    /\ options = ApplyOptions({}, {}, None)
    /\ fsys = InitialFiles
    /\ cursor = 0
    /\ writtenFiles = <<>>
    /\ renamedFiles = <<>>
    /\ deletedFiles = <<>>
    /\ errors = <<>>
    /\ manifest = NoManifest
    /\ trace = <<>>
    /\ touched = {}
    /\ joinedPaths = {}

\* file-operations is not in use.
ApplyIdle ==
    /\ appPath = <<"/", "r">>
    /\ relativePath = <<>>
    /\ joined = NotJoined
    /\ ApplierIdle

\* There is one call of process only.
NoTurn ==
    [turn |-> 0]

\* The process and the tag parser are not in use.
ProcessIdle ==
    /\ config = Constructor([chatMode |-> "build",
                             enableAutoFix |-> [has |-> FALSE, val |-> TRUE],
                             maxContinuationAttempts |-> [has |-> FALSE, val |-> 0]])
    /\ onChunk = "none"
    /\ aborted = FALSE
    /\ pc = "idle"
    /\ phase = "initial"
    /\ stream = <<>>
    /\ fullResponse = <<>>
    /\ wasAborted = FALSE
    /\ autoFixAttempts = 0
    /\ continuationAttempts = 0
    /\ srFullResponse = <<>>
    /\ inThinkingBlock = FALSE
    /\ pending = <<>>
    /\ events = <<>>
    /\ result = NoResult
    /\ thrown = FALSE
    /\ invocations = 0
    /\ abortObserved = FALSE
    /\ abortedMidStream = FALSE
    /\ consumed = <<>>
    /\ emitted = <<>>
    /\ emittedBefore = <<>>
    /\ docBefore = <<>>
    /\ lastRound = NoRound
    /\ observed = NoCall
    /\ emissions = NoEmission
    /\ autoFixRuns = 0
    /\ suspended = NoTurn
    /\ text = <<>>
    /\ detected = NotDetected
    /\ pieces = <<>>

Init ==
    /\ config \in {Constructor(c) : c \in CallerConfigs}
    /\ onChunk \in Observers
    /\ aborted = FALSE
    /\ pc = "idle"
    /\ phase = "initial"
    /\ stream = <<>>
    /\ fullResponse = <<>>
    /\ wasAborted = FALSE
    /\ autoFixAttempts = 0
    /\ continuationAttempts = 0
    /\ srFullResponse = <<>>
    /\ inThinkingBlock = FALSE
    /\ pending = <<>>
    /\ events = <<>>
    /\ result = NoResult
    /\ thrown = FALSE
    /\ invocations = 0
    /\ abortObserved = FALSE
    /\ abortedMidStream = FALSE
    /\ consumed = <<>>
    /\ emitted = <<>>
    /\ emittedBefore = <<>>
    /\ docBefore = <<>>
    /\ lastRound = NoRound
    /\ observed = NoCall
    /\ emissions = NoEmission
    /\ autoFixRuns = 0
    /\ suspended = NoTurn
    /\ text = <<>>
    /\ detected = NotDetected
    /\ pieces = <<>>
    /\ ApplyIdle

\* The call this.streamResponse(...) up to its await streamText(...).
CallStreamResponse(ph, doc) ==
    /\ phase' = ph
    /\ pc' = "invoke"
    /\ fullResponse' = doc
    /\ srFullResponse' = <<>>
    /\ inThinkingBlock' = FALSE
    /\ stream' = <<>>
    /\ pending' = <<>>
    /\ invocations' = invocations + 1
    /\ consumed' = <<>>
    /\ emitted' = <<>>
    /\ emittedBefore' = emittedBefore \o emitted
    /\ docBefore' = doc

\* onEvent start, then the first call of streamResponse.
Start ==
    /\ pc = "idle"
    /\ events' = Append(events, "start")
    /\ CallStreamResponse("initial", fullResponse)
    /\ UNCHANGED <<config, onChunk, aborted, wasAborted, autoFixAttempts,
                   continuationAttempts, result, thrown, abortObserved,
                   abortedMidStream, lastRound, tagVars, applyVars, suspended,
                   observed, emissions, autoFixRuns>>

\* await streamText(...) resolves with a stream.
StreamTextResolves ==
    /\ pc = "invoke"
    /\ stream' \in (IF phase = "initial" THEN InitialStreams ELSE ContinuationStreams)
    /\ pc' = "next"
    /\ UNCHANGED <<config, onChunk, aborted, phase, fullResponse, wasAborted,
                   autoFixAttempts, continuationAttempts, srFullResponse,
                   inThinkingBlock, pending, events, result, thrown, invocations,
                   abortObserved, abortedMidStream, consumed, emitted, emittedBefore,
                   docBefore, lastRound, tagVars, applyVars, suspended,
                   observed, emissions, autoFixRuns>>

\* process from the return of a call of streamResponse on, doc being
\* fullResponse after the assignment: the continuation loop's test and either
\* the next round, the auto-fix stage, or onEvent end and the return.
AfterStreamResponse(doc) ==
    IF ContinuationGuard(doc, continuationAttempts, aborted)
    THEN /\ continuationAttempts' = continuationAttempts + 1
         /\ CallStreamResponse("continuation", doc)
         /\ UNCHANGED <<wasAborted, autoFixAttempts, events, result, autoFixRuns>>
    ELSE IF AutoFixGuard(aborted)
    THEN /\ pc' = "autofix"
         /\ fullResponse' = doc
         /\ UNCHANGED <<phase, stream, wasAborted, autoFixAttempts, continuationAttempts,
                        srFullResponse, inThinkingBlock, pending, events, result,
                        invocations, consumed, emitted, emittedBefore, docBefore,
                        autoFixRuns>>
    ELSE /\ pc' = "done"
         /\ fullResponse' = doc
         /\ events' = Append(events, "end")
         /\ result' = ProcessResult(doc, autoFixAttempts, wasAborted)
         /\ UNCHANGED <<phase, stream, wasAborted, autoFixAttempts, continuationAttempts,
                        srFullResponse, inThinkingBlock, pending, invocations,
                        consumed, emitted, emittedBefore, docBefore, autoFixRuns>>

\* The return of streamResponse with value ret into process: the assignment
\* of the first call, or fullResponse += continuation.
StreamResponseReturns(ret, sawAbort) ==
    LET doc == IF phase = "initial" THEN ret ELSE fullResponse \o ret
    IN  /\ lastRound' = IF phase = "initial" THEN lastRound
                        ELSE [n |-> continuationAttempts, before |-> docBefore,
                              output |-> emitted, after |-> doc]
        /\ abortObserved' = (abortObserved \/ sawAbort
                             \/ GuardsObserveAbort(doc, continuationAttempts, aborted))
        /\ AfterStreamResponse(doc)
        /\ UNCHANGED <<config, onChunk, aborted, thrown, abortedMidStream, tagVars, applyVars, suspended, observed, emissions>>

\* A producer that never signals the end of its stream.
EndOfStreamNever ==
    FALSE

\* The iterator of result.fullStream reports done.
EndOfStream ==
    /\ pc = "next"
    /\ stream = <<>>

\* for await: the stream is exhausted.
StreamEnds ==
    /\ EndOfStream
    /\ StreamResponseReturns(srFullResponse, FALSE)

\* for await: a part arrives and abortSignal.aborted is set: break.
Break ==
    /\ pc = "next"
    /\ stream # <<>>
    /\ aborted
    /\ StreamResponseReturns(srFullResponse, TRUE)

\* The call of options.onChunk that an emission leads to: by streamResponse
\* itself in the first stream, onChunk({ fullResponse, incrementalChunk: chunk }),
\* and by the wrapper in a continuation round,
\* onChunk({ fullResponse, incrementalChunk: "" }) with fullResponse = newFull.
ObserverCall(before, ph, newFull, chunk) ==
    [calls |-> before.calls + 1,
     fullResponse |-> newFull,
     incrementalChunk |-> IF ph = "initial" THEN chunk ELSE <<>>]

\* The onChunk the continuation round passes to streamResponse:
\* fullResponse = newFull; return onChunk?.(...) ?? fullResponse
ContinuationOnChunk(newFull) ==
    IF onChunk = "none" THEN newFull ELSE Observer(onChunk, newFull, <<>>)

\* A loop that does not test the signal when a part arrives.
ProcessPartUnchecked ==
    /\ pc = "next"
    /\ stream # <<>>
    /\ LET part   == Head(stream)
           step   == MuxStep(part, inThinkingBlock)
           newAcc == srFullResponse \o step.chunk
       IN  /\ stream' = Tail(stream)
           /\ consumed' = Append(consumed, part)
           /\ inThinkingBlock' = step.inThinkingBlock
           /\ emitted' = emitted \o step.chunk
           /\ srFullResponse' = newAcc
           /\ emissions' = IF step.chunk = <<>> THEN emissions
                            ELSE [count |-> emissions.count + 1, chunk |-> step.chunk]
           /\ observed' = IF step.chunk = <<>> \/ onChunk = "none" THEN observed
                           ELSE ObserverCall(observed, phase, newAcc, step.chunk)
           /\ IF step.chunk = <<>>
              THEN /\ pc' = "next"
                   /\ UNCHANGED <<fullResponse, pending>>
              ELSE IF phase = "initial"
              THEN /\ pc' = IF onChunk = "none" THEN "next" ELSE "observer"
                   /\ pending' = IF onChunk = "none" THEN pending
                                 ELSE Observer(onChunk, newAcc, step.chunk)
                   /\ UNCHANGED fullResponse
              ELSE /\ pc' = "observer"
                   /\ fullResponse' = newAcc
                   /\ pending' = ContinuationOnChunk(newAcc)
    /\ UNCHANGED <<config, onChunk, aborted, phase, wasAborted, autoFixAttempts,
                   continuationAttempts, events, result, thrown, invocations,
                   abortObserved, abortedMidStream, emittedBefore, docBefore,
                   lastRound, tagVars, applyVars, suspended,
                   autoFixRuns>>

\* for await: a part arrives and the signal is not set: the body of the loop
\* up to the await of onChunk.
ProcessPart ==
    /\ pc = "next"
    /\ stream # <<>>
    /\ ~aborted
    /\ LET part   == Head(stream)
           step   == MuxStep(part, inThinkingBlock)
           newAcc == srFullResponse \o step.chunk
       IN  /\ stream' = Tail(stream)
           /\ consumed' = Append(consumed, part)
           /\ inThinkingBlock' = step.inThinkingBlock
           /\ emitted' = emitted \o step.chunk
           /\ srFullResponse' = newAcc
           /\ emissions' = IF step.chunk = <<>> THEN emissions
                            ELSE [count |-> emissions.count + 1, chunk |-> step.chunk]
           /\ observed' = IF step.chunk = <<>> \/ onChunk = "none" THEN observed
                           ELSE ObserverCall(observed, phase, newAcc, step.chunk)
           /\ IF step.chunk = <<>>
              THEN /\ pc' = "next"
                   /\ UNCHANGED <<fullResponse, pending>>
              ELSE IF phase = "initial"
              THEN /\ pc' = IF onChunk = "none" THEN "next" ELSE "observer"
                   /\ pending' = IF onChunk = "none" THEN pending
                                 ELSE Observer(onChunk, newAcc, step.chunk)
                   /\ UNCHANGED fullResponse
              ELSE /\ pc' = "observer"
                   /\ fullResponse' = newAcc
                   /\ pending' = ContinuationOnChunk(newAcc)
    /\ UNCHANGED <<config, onChunk, aborted, phase, wasAborted, autoFixAttempts,
                   continuationAttempts, events, result, thrown, invocations,
                   abortObserved, abortedMidStream, emittedBefore, docBefore,
                   lastRound, tagVars, applyVars, suspended,
                   autoFixRuns>>

\* A streamResponse that keeps its own copy and drops what onChunk returns.
ObserverReturnsIgnored ==
    /\ pc = "observer"
    /\ pc' = "next"
    /\ UNCHANGED <<config, onChunk, aborted, phase, stream, fullResponse, wasAborted,
                   autoFixAttempts, continuationAttempts, srFullResponse,
                   inThinkingBlock, pending, events, result, thrown, invocations,
                   abortObserved, abortedMidStream, consumed, emitted, emittedBefore,
                   docBefore, lastRound, tagVars, applyVars, suspended,
                   observed, emissions, autoFixRuns>>

\* The awaited onChunk resolves: fullResponse = await onChunk(...)
ObserverReturns ==
    /\ pc = "observer"
    /\ srFullResponse' = pending
    /\ pc' = "next"
    /\ UNCHANGED <<config, onChunk, aborted, phase, stream, fullResponse, wasAborted,
                   autoFixAttempts, continuationAttempts, inThinkingBlock, pending,
                   events, result, thrown, invocations, abortObserved,
                   abortedMidStream, consumed, emitted, emittedBefore, docBefore,
                   lastRound, tagVars, applyVars, suspended,
                   observed, emissions, autoFixRuns>>

\* A catch clause that rethrows without reporting the failure.
CatchSilently ==
    IF aborted
    THEN /\ wasAborted' = TRUE
         /\ result' = ProcessResult(fullResponse, autoFixAttempts, TRUE)
         /\ pc' = "done"
         /\ UNCHANGED <<events, thrown>>
    ELSE /\ thrown' = TRUE
         /\ pc' = "failed"
         /\ UNCHANGED <<events, wasAborted, result>>

\* The catch clause of process.
Catch ==
    IF aborted
    THEN /\ wasAborted' = TRUE
         /\ result' = ProcessResult(fullResponse, autoFixAttempts, TRUE)
         /\ pc' = "done"
         /\ UNCHANGED <<events, thrown>>
    ELSE /\ events' = Append(events, "error")
         /\ thrown' = TRUE
         /\ pc' = "failed"
         /\ UNCHANGED <<wasAborted, result>>

\* The producer fails: streamText rejects, or the stream's next part does.
ProducerThrows ==
    /\ pc \in {"invoke", "next"}
    /\ Catch
    /\ stream' = <<>>
    /\ UNCHANGED <<config, onChunk, aborted, phase, fullResponse, autoFixAttempts,
                   continuationAttempts, srFullResponse, inThinkingBlock, pending,
                   invocations, abortObserved, abortedMidStream, consumed, emitted,
                   emittedBefore, docBefore, lastRound, tagVars, applyVars, suspended,
                   observed, emissions, autoFixRuns>>

\* The producer reacts to the signal by ending its stream.
ProducerEndsOnAbort ==
    /\ pc = "next"
    /\ aborted
    /\ stream # <<>>
    /\ stream' = <<>>
    /\ UNCHANGED <<config, onChunk, aborted, pc, phase, fullResponse, wasAborted,
                   autoFixAttempts, continuationAttempts, srFullResponse,
                   inThinkingBlock, pending, events, result, thrown, invocations,
                   abortObserved, abortedMidStream, consumed, emitted, emittedBefore,
                   docBefore, lastRound, tagVars, applyVars, suspended,
                   observed, emissions, autoFixRuns>>

\* await this.runAutoFixLoop(...) resolves; onEvent end; return.
AutoFixReturns ==
    /\ pc = "autofix"
    /\ LET fixResult == runAutoFixLoop(fullResponse)
       IN  /\ fullResponse' = fixResult.fullResponse
           /\ autoFixAttempts' = fixResult.attempts
           /\ events' = Append(events, "end")
           /\ result' = ProcessResult(fixResult.fullResponse, fixResult.attempts, wasAborted)
    /\ autoFixRuns' = autoFixRuns + 1
    /\ pc' = "done"
    /\ UNCHANGED <<config, onChunk, aborted, phase, stream, wasAborted,
                   continuationAttempts, srFullResponse, inThinkingBlock, pending,
                   thrown, invocations, abortObserved, abortedMidStream, consumed,
                   emitted, emittedBefore, docBefore, lastRound, tagVars, applyVars, suspended,
                   observed, emissions>>

\* The caller sets the abort signal (AbortController.abort()).
Abort ==
    /\ ~aborted
    /\ pc \notin {"done", "failed"}
    /\ aborted' = TRUE
    /\ abortedMidStream' = (pc \in {"invoke", "next", "observer"})
    /\ UNCHANGED <<config, onChunk, pc, phase, stream, fullResponse, wasAborted,
                   autoFixAttempts, continuationAttempts, srFullResponse,
                   inThinkingBlock, pending, events, result, thrown, invocations,
                   abortObserved, consumed, emitted, emittedBefore, docBefore,
                   lastRound, tagVars, applyVars, suspended,
                   observed, emissions, autoFixRuns>>

Next ==
    \/ Start
    \/ StreamTextResolves
    \/ ProcessPart
    \/ ObserverReturns
    \/ Break
    \/ StreamEnds
    \/ ProducerThrows
    \/ ProducerEndsOnAbort
    \/ AutoFixReturns
    \/ Abort

Spec ==
    Init /\ [][Next]_vars

\* process is called, and every await of it resolves: streamText answers,
\* the streams are finite, onChunk and runAutoFixLoop return. The steps of
\* the for await loop and the return of runAutoFixLoop are weakly fair too:
\* []<>~G \/ []<><<A>>_vars is WF_vars(A) with ENABLED <<A>>_vars written
\* out as the condition G under which A can be taken.
FairSpec ==
    /\ Spec
    /\ WF_vars(Start)
    /\ WF_vars(StreamTextResolves)
    /\ WF_vars(ObserverReturns)
    /\ []<>~(pc = "next" /\ stream # <<>> /\ ~aborted) \/ []<><<ProcessPart>>_vars
    /\ []<>~(pc = "next" /\ stream # <<>> /\ aborted) \/ []<><<Break>>_vars
    /\ []<>~EndOfStream \/ []<><<StreamEnds>>_vars
    /\ []<>~(pc = "autofix") \/ []<><<AutoFixReturns>>_vars

(***************************************************************************)
(* Two calls of process on one CodingLoop instance, interleaved at their   *)
(* awaits: the event loop runs one call up to an await and may go on with  *)
(* the other. this.config is the only field of the instance; the           *)
(* parameters and let variables of process and streamResponse belong to    *)
(* the call.                                                               *)
(***************************************************************************)
\* A call of process with the observer given that has not started.
IdleTurn(turn, observer) ==
    [turn |-> turn, onChunk |-> observer, aborted |-> FALSE, pc |-> "idle",
     phase |-> "initial", stream |-> <<>>, fullResponse |-> <<>>, wasAborted |-> FALSE,
     autoFixAttempts |-> 0, continuationAttempts |-> 0, srFullResponse |-> <<>>,
     inThinkingBlock |-> FALSE, pending |-> <<>>, events |-> <<>>, result |-> NoResult,
     thrown |-> FALSE, invocations |-> 0, abortObserved |-> FALSE,
     abortedMidStream |-> FALSE, consumed |-> <<>>, emitted |-> <<>>,
     emittedBefore |-> <<>>, docBefore |-> <<>>, lastRound |-> NoRound,
     observed |-> NoCall, emissions |-> NoEmission, autoFixRuns |-> 0]

\* The parameters and local variables of the call that is running.
Running ==
    [turn |-> 3 - suspended.turn,
     onChunk |-> onChunk, aborted |-> aborted, pc |-> pc, phase |-> phase,
     stream |-> stream, fullResponse |-> fullResponse,
     wasAborted |-> wasAborted, autoFixAttempts |-> autoFixAttempts,
     continuationAttempts |-> continuationAttempts,
     srFullResponse |-> srFullResponse, inThinkingBlock |-> inThinkingBlock,
     pending |-> pending, events |-> events, result |-> result,
     thrown |-> thrown, invocations |-> invocations,
     abortObserved |-> abortObserved, abortedMidStream |-> abortedMidStream,
     consumed |-> consumed, emitted |-> emitted,
     emittedBefore |-> emittedBefore, docBefore |-> docBefore,
     lastRound |-> lastRound, observed |-> observed, emissions |-> emissions,
     autoFixRuns |-> autoFixRuns]

\* An instance that keeps inThinkingBlock in a field: the two calls share it.
SwitchSharingFlag ==
    /\ suspended.turn # 0
    /\ suspended' = Running
    /\ onChunk' = suspended.onChunk
    /\ aborted' = suspended.aborted
    /\ pc' = suspended.pc
    /\ phase' = suspended.phase
    /\ stream' = suspended.stream
    /\ fullResponse' = suspended.fullResponse
    /\ wasAborted' = suspended.wasAborted
    /\ autoFixAttempts' = suspended.autoFixAttempts
    /\ continuationAttempts' = suspended.continuationAttempts
    /\ srFullResponse' = suspended.srFullResponse
    /\ inThinkingBlock' = inThinkingBlock
    /\ pending' = suspended.pending
    /\ events' = suspended.events
    /\ result' = suspended.result
    /\ thrown' = suspended.thrown
    /\ invocations' = suspended.invocations
    /\ abortObserved' = suspended.abortObserved
    /\ abortedMidStream' = suspended.abortedMidStream
    /\ consumed' = suspended.consumed
    /\ emitted' = suspended.emitted
    /\ emittedBefore' = suspended.emittedBefore
    /\ docBefore' = suspended.docBefore
    /\ lastRound' = suspended.lastRound
    /\ observed' = suspended.observed
    /\ emissions' = suspended.emissions
    /\ autoFixRuns' = suspended.autoFixRuns
    /\ UNCHANGED <<config, tagVars, applyVars>>

\* The running call is at an await (or has not started, or is over) and the
\* event loop goes on with the other call.
Switch ==
    /\ suspended.turn # 0
    /\ suspended' = Running
    /\ onChunk' = suspended.onChunk
    /\ aborted' = suspended.aborted
    /\ pc' = suspended.pc
    /\ phase' = suspended.phase
    /\ stream' = suspended.stream
    /\ fullResponse' = suspended.fullResponse
    /\ wasAborted' = suspended.wasAborted
    /\ autoFixAttempts' = suspended.autoFixAttempts
    /\ continuationAttempts' = suspended.continuationAttempts
    /\ srFullResponse' = suspended.srFullResponse
    /\ inThinkingBlock' = suspended.inThinkingBlock
    /\ pending' = suspended.pending
    /\ events' = suspended.events
    /\ result' = suspended.result
    /\ thrown' = suspended.thrown
    /\ invocations' = suspended.invocations
    /\ abortObserved' = suspended.abortObserved
    /\ abortedMidStream' = suspended.abortedMidStream
    /\ consumed' = suspended.consumed
    /\ emitted' = suspended.emitted
    /\ emittedBefore' = suspended.emittedBefore
    /\ docBefore' = suspended.docBefore
    /\ lastRound' = suspended.lastRound
    /\ observed' = suspended.observed
    /\ emissions' = suspended.emissions
    /\ autoFixRuns' = suspended.autoFixRuns
    /\ UNCHANGED <<config, tagVars, applyVars>>

\* Two calls, of which the first is about to run: the first with an observer
\* that marks the document, the second without an observer.
InitTwo ==
    /\ config = Constructor([chatMode |-> "build",
                             enableAutoFix |-> [has |-> FALSE, val |-> TRUE],
                             maxContinuationAttempts |-> [has |-> TRUE, val |-> 1]])
    /\ onChunk = "mark"
    /\ aborted = FALSE
    /\ pc = "idle"
    /\ phase = "initial"
    /\ stream = <<>>
    /\ fullResponse = <<>>
    /\ wasAborted = FALSE
    /\ autoFixAttempts = 0
    /\ continuationAttempts = 0
    /\ srFullResponse = <<>>
    /\ inThinkingBlock = FALSE
    /\ pending = <<>>
    /\ events = <<>>
    /\ result = NoResult
    /\ thrown = FALSE
    /\ invocations = 0
    /\ abortObserved = FALSE
    /\ abortedMidStream = FALSE
    /\ consumed = <<>>
    /\ emitted = <<>>
    /\ emittedBefore = <<>>
    /\ docBefore = <<>>
    /\ lastRound = NoRound
    /\ observed = NoCall
    /\ emissions = NoEmission
    /\ autoFixRuns = 0
    /\ suspended = IdleTurn(2, "none")
    /\ text = <<>>
    /\ detected = NotDetected
    /\ pieces = <<>>
    /\ ApplyIdle

SpecTwo ==
    InitTwo /\ [][Next \/ Switch]_vars

(***************************************************************************)
(* The tag parser applied to a document on its own.                        *)
(***************************************************************************)
InitTags ==
    /\ text \in Documents
    /\ detected = NotDetected
    /\ pieces = <<>>
    /\ ApplyIdle
    /\ config = Constructor([chatMode |-> "build",
                             enableAutoFix |-> [has |-> FALSE, val |-> TRUE],
                             maxContinuationAttempts |-> [has |-> FALSE, val |-> 0]])
    /\ onChunk = "none"
    /\ aborted = FALSE
    /\ pc = "idle"
    /\ phase = "initial"
    /\ stream = <<>>
    /\ fullResponse = <<>>
    /\ wasAborted = FALSE
    /\ autoFixAttempts = 0
    /\ continuationAttempts = 0
    /\ srFullResponse = <<>>
    /\ inThinkingBlock = FALSE
    /\ pending = <<>>
    /\ events = <<>>
    /\ result = NoResult
    /\ thrown = FALSE
    /\ invocations = 0
    /\ abortObserved = FALSE
    /\ abortedMidStream = FALSE
    /\ consumed = <<>>
    /\ emitted = <<>>
    /\ emittedBefore = <<>>
    /\ docBefore = <<>>
    /\ lastRound = NoRound
    /\ observed = NoCall
    /\ emissions = NoEmission
    /\ autoFixRuns = 0
    /\ suspended = NoTurn

\* hasUnclosedWriteTag(text) and parseResponse(text) are called.
Detect ==
    /\ ~detected.done
    /\ detected' = [done |-> TRUE, unclosed |-> hasUnclosedWriteTag(text),
                     parsed |-> parseResponse(text)]
    /\ UNCHANGED <<text, pieces, procVars, applyVars>>

SpecTags ==
    InitTags /\ [][Detect]_vars

(***************************************************************************)
(* The tag parser applied to a document written from whole tags.           *)
(***************************************************************************)
InitExtract ==
    /\ pieces \in TagLists
    /\ text = TextOf(pieces)
    /\ detected = NotDetected
    /\ ApplyIdle
    /\ config = Constructor([chatMode |-> "build",
                             enableAutoFix |-> [has |-> FALSE, val |-> TRUE],
                             maxContinuationAttempts |-> [has |-> FALSE, val |-> 0]])
    /\ onChunk = "none"
    /\ aborted = FALSE
    /\ pc = "idle"
    /\ phase = "initial"
    /\ stream = <<>>
    /\ fullResponse = <<>>
    /\ wasAborted = FALSE
    /\ autoFixAttempts = 0
    /\ continuationAttempts = 0
    /\ srFullResponse = <<>>
    /\ inThinkingBlock = FALSE
    /\ pending = <<>>
    /\ events = <<>>
    /\ result = NoResult
    /\ thrown = FALSE
    /\ invocations = 0
    /\ abortObserved = FALSE
    /\ abortedMidStream = FALSE
    /\ consumed = <<>>
    /\ emitted = <<>>
    /\ emittedBefore = <<>>
    /\ docBefore = <<>>
    /\ lastRound = NoRound
    /\ observed = NoCall
    /\ emissions = NoEmission
    /\ autoFixRuns = 0
    /\ suspended = NoTurn

SpecExtract ==
    InitExtract /\ [][Detect]_vars

(***************************************************************************)
(* safeJoin applied to a root and a path on its own.                       *)
(***************************************************************************)
InitPaths ==
    /\ appPath \in Roots
    /\ relativePath \in RelativePaths
    /\ joined = NotJoined
    /\ ApplierIdle
    /\ ProcessIdle

\* safeJoin(appPath, relativePath) is called.
Resolve ==
    /\ ~joined.done
    /\ joined' = [done |-> TRUE, result |-> safeJoin(appPath, relativePath)]
    /\ UNCHANGED <<appPath, relativePath, procVars, tagVars, options, fsys, cursor,
                   writtenFiles, renamedFiles, deletedFiles, errors, manifest, trace,
                   touched, joinedPaths>>

SpecPaths ==
    InitPaths /\ [][Resolve]_vars

(***************************************************************************)
(* file-operations: applyFileChanges.                                      *)
(***************************************************************************)
\* One call of node:fs and the path it is given.
Touch(call, p) ==
    [call |-> call, path |-> p]

\* What the try block of one iteration did: how it ended (done: the operation
\* was performed; missing: its source does not exist; threw), why it threw
\* (escape: safeJoin; io: node:fs), what its source was, the filesystem it
\* leaves, the node:fs calls it made and the paths safeJoin returned to it.
Outcome(status, cause, source, fs, calls, resolved) ==
    [status |-> status, cause |-> cause, source |-> source, fsys |-> fs,
     calls |-> calls, resolved |-> resolved]

\* The try block of the delete loop, up to its callback.
DeleteBody(root, fs, filePath) ==
    With(safeJoin(root, filePath), LAMBDA fullFilePath :
        IF ~fullFilePath.has
        THEN Outcome("threw", "escape", "escape", fs, {}, {})
        ELSE IF Exists(fs, fullFilePath.val)
        THEN Outcome("done", "none", "present", Remove(fs, fullFilePath.val),
                     {Touch("existsSync", fullFilePath.val),
                      Touch("lstatSync", fullFilePath.val),
                      Touch(IF fullFilePath.val \in fs.dirs THEN "rmdirSync"
                            ELSE "unlinkSync", fullFilePath.val)},
                     {fullFilePath.val})
        ELSE Outcome("missing", "none", "absent", fs,
                     {Touch("existsSync", fullFilePath.val)}, {fullFilePath.val}))

\* The rename loop's try block with the target itself created as a directory
\* (path.dirname of line 318 left out): the variant the frame property of a
\* skipped rename has to tell from the code.
RenameBodyMakingTarget(root, fs, tag) ==
    With(safeJoin(root, tag.from), LAMBDA fromPath :
    With(safeJoin(root, tag.to), LAMBDA toPath :
        IF ~fromPath.has
        THEN Outcome("threw", "escape", "escape", fs, {}, {})
        ELSE With(IF Exists(fs, fromPath.val) THEN "present" ELSE "absent",
                  LAMBDA source :
        IF ~toPath.has
        THEN Outcome("threw", "escape", source, fs, {}, {fromPath.val})
        ELSE With(mkdirSync(fs, toPath.val), LAMBDA made :
        IF ~made.has
        THEN Outcome("threw", "io", source, fs,
                     {Touch("mkdirSync", toPath.val)}, {fromPath.val, toPath.val})
        ELSE IF ~Exists(made.val, fromPath.val)
        THEN Outcome("missing", "none", source, made.val,
                     {Touch("mkdirSync", toPath.val), Touch("existsSync", fromPath.val)},
                     {fromPath.val, toPath.val})
        ELSE With(renameSync(made.val, fromPath.val, toPath.val), LAMBDA moved :
             Outcome(IF moved.has THEN "done" ELSE "threw",
                     IF moved.has THEN "none" ELSE "io",
                     source,
                     IF moved.has THEN moved.val ELSE made.val,
                     {Touch("mkdirSync", toPath.val),
                      Touch("existsSync", fromPath.val),
                      Touch("renameSync", fromPath.val),
                      Touch("renameSync", toPath.val)},
                     {fromPath.val, toPath.val}))))))

\* The try block of the rename loop, up to its callback.
RenameBody(root, fs, tag) ==
    With(safeJoin(root, tag.from), LAMBDA fromPath :
    With(safeJoin(root, tag.to), LAMBDA toPath :
        IF ~fromPath.has
        THEN Outcome("threw", "escape", "escape", fs, {}, {})
        ELSE With(IF Exists(fs, fromPath.val) THEN "present" ELSE "absent",
                  LAMBDA source :
        IF ~toPath.has
        THEN Outcome("threw", "escape", source, fs, {}, {fromPath.val})
        ELSE With(mkdirSync(fs, pathDirname(toPath.val)), LAMBDA made :
        IF ~made.has
        THEN Outcome("threw", "io", source, fs,
                     {Touch("mkdirSync", pathDirname(toPath.val))},
                     {fromPath.val, toPath.val})
        ELSE IF ~Exists(made.val, fromPath.val)
        THEN Outcome("missing", "none", source, made.val,
                     {Touch("mkdirSync", pathDirname(toPath.val)),
                      Touch("existsSync", fromPath.val)},
                     {fromPath.val, toPath.val})
        ELSE With(renameSync(made.val, fromPath.val, toPath.val), LAMBDA moved :
             Outcome(IF moved.has THEN "done" ELSE "threw",
                     IF moved.has THEN "none" ELSE "io",
                     source,
                     IF moved.has THEN moved.val ELSE made.val,
                     {Touch("mkdirSync", pathDirname(toPath.val)),
                      Touch("existsSync", fromPath.val),
                      Touch("renameSync", fromPath.val),
                      Touch("renameSync", toPath.val)},
                     {fromPath.val, toPath.val}))))))

\* The try block of the write loop, up to its last callback; the callback
\* after the upload is read is part of it.
WriteBody(root, fs, tag, opts) ==
    With(safeJoin(root, tag.path), LAMBDA fullFilePath :
    With(IF opts.fileUploadsMap.has
            /\ Trim(tag.content) \in DOMAIN opts.fileUploadsMap.val
         THEN {Touch("readFile", opts.fileUploadsMap.val[Trim(tag.content)].filePath)}
         ELSE {},
         LAMBDA reads :
        IF ~fullFilePath.has
        THEN Outcome("threw", "escape", "none", fs, {}, {})
        ELSE IF \E t \in reads : t.path \notin fs.files
        THEN Outcome("threw", "io", "none", fs, reads, {fullFilePath.val})
        ELSE IF reads # {} /\ "log" \in opts.throwing
        THEN Outcome("threw", "callback", "none", fs, reads, {fullFilePath.val})
        ELSE With(mkdirSync(fs, pathDirname(fullFilePath.val)), LAMBDA made :
        IF ~made.has
        THEN Outcome("threw", "io", "none", fs,
                     reads \cup {Touch("mkdirSync", pathDirname(fullFilePath.val))},
                     {fullFilePath.val})
        ELSE With(writeFileSync(made.val, fullFilePath.val), LAMBDA wrote :
             Outcome(IF wrote.has THEN "done" ELSE "threw",
                     IF wrote.has THEN "none" ELSE "io",
                     "none",
                     IF wrote.has THEN wrote.val ELSE made.val,
                     reads \cup {Touch("mkdirSync", pathDirname(fullFilePath.val)),
                                 Touch("writeFileSync", fullFilePath.val)},
                     {fullFilePath.val})))))

\* The loops in another order: renames, then deletes, then writes.
OperationsRenamesFirst(parsed) ==
    [j \in 1..Len(parsed.renameTags) |->
            RenameOp(parsed.renameTags[j].from, parsed.renameTags[j].to)]
    \o [j \in 1..Len(parsed.deletePaths) |-> DeleteOp(parsed.deletePaths[j])]
    \o [j \in 1..Len(parsed.writeTags) |->
            WriteOp(parsed.writeTags[j].path, parsed.writeTags[j].content)]

\* The operations of a ParsedResponse in the order of the three loops.
Operations(parsed) ==
    [j \in 1..Len(parsed.deletePaths) |-> DeleteOp(parsed.deletePaths[j])]
    \o [j \in 1..Len(parsed.renameTags) |->
            RenameOp(parsed.renameTags[j].from, parsed.renameTags[j].to)]
    \o [j \in 1..Len(parsed.writeTags) |->
            WriteOp(parsed.writeTags[j].path, parsed.writeTags[j].content)]

\* The message of a failed operation: "Failed to <op>: <path>[ -> <to>]".
FailedTo(op) ==
    [op |-> op.kind, path |-> op.path, to |-> op.to]

\* A catch block that is also entered when the source does not exist.
CaughtWhenMissing(b, throwing) ==
    \/ b.status \in {"threw", "missing"}
    \/ b.status = "done" /\ "log" \in throwing

\* The try block of an iteration ends in its catch block: it threw, or the
\* callback it ends with did.
Caught(b, throwing) ==
    \/ b.status = "threw"
    \/ b.status = "done" /\ "log" \in throwing
    \/ b.status = "missing" /\ "warn" \in throwing

\* The FileOperationResult of the normal return; error stands for the
\* messages joined by "; ".
Returned(w, r, d, errs, added) ==
    [returned |-> TRUE, writtenFiles |-> w, renamedFiles |-> r, deletedFiles |-> d,
     addedPackages |-> added,
     hasChanges |-> (Len(w) > 0 \/ Len(r) > 0 \/ Len(d) > 0),
     error |-> IF Len(errs) > 0 THEN Some(errs) ELSE None]

\* The FileOperationResult of the outer catch block; error is the message of
\* the error the callback threw.
OuterCatch(w, r, d, added) ==
    [returned |-> TRUE, writtenFiles |-> w, renamedFiles |-> r, deletedFiles |-> d,
     addedPackages |-> added, hasChanges |-> FALSE,
     error |-> Some(<<[op |-> "callback", path |-> <<>>, to |-> <<>>]>>)]

\* One iteration of a loop on op with the try block's outcome b: the
\* callback, the list the operation is recorded in, the catch block, and the
\* outer catch block when onError throws.
Iteration(op, b) ==
    LET caught == Caught(b, options.throwing)
        recorded == b.status = "done" /\ ~caught
        escaped == caught /\ "error" \in options.throwing
    IN  /\ fsys' = b.fsys
        /\ touched' = touched \cup b.calls
        /\ joinedPaths' = joinedPaths \cup b.resolved
        /\ deletedFiles' = IF recorded /\ op.kind = "delete"
                           THEN Append(deletedFiles, op.path) ELSE deletedFiles
        /\ renamedFiles' = IF recorded /\ op.kind = "rename"
                           THEN Append(renamedFiles, op.to) ELSE renamedFiles
        /\ writtenFiles' = IF recorded /\ op.kind = "write"
                           THEN Append(writtenFiles, op.path) ELSE writtenFiles
        /\ errors' = IF caught /\ ~escaped THEN Append(errors, FailedTo(op))
                     ELSE errors
        /\ trace' = Append(trace, [op |-> op, status |-> b.status, cause |-> b.cause,
                                   source |-> b.source, caught |-> caught,
                                   recorded |-> recorded, escaped |-> escaped])
        /\ cursor' = IF escaped THEN cursor ELSE cursor + 1
        /\ manifest' = IF escaped
                       THEN OuterCatch(writtenFiles', renamedFiles', deletedFiles',
                                       options.parsedResponse.addDependencies)
                       ELSE manifest
        /\ UNCHANGED <<options, pathVars, procVars, tagVars>>

\* The loops are at an operation of this kind.
At(kind) ==
    /\ ~manifest.returned
    /\ cursor \in 1..Len(Operations(options.parsedResponse))
    /\ Operations(options.parsedResponse)[cursor].kind = kind

\* One iteration of the delete loop.
DeleteFile ==
    /\ At("delete")
    /\ With(Operations(options.parsedResponse)[cursor], LAMBDA op :
            Iteration(op, DeleteBody(appPath, fsys, op.path)))

\* One iteration of the rename loop.
RenameFile ==
    /\ At("rename")
    /\ With(Operations(options.parsedResponse)[cursor], LAMBDA op :
            Iteration(op, RenameBody(appPath, fsys, [from |-> op.path, to |-> op.to])))

\* One iteration of the write loop.
WriteFile ==
    /\ At("write")
    /\ With(Operations(options.parsedResponse)[cursor], LAMBDA op :
            Iteration(op, WriteBody(appPath, fsys, op, options)))

\* The three loops are over: the normal return.
ReturnResult ==
    /\ ~manifest.returned
    /\ cursor = Len(Operations(options.parsedResponse)) + 1
    /\ manifest' = Returned(writtenFiles, renamedFiles, deletedFiles, errors,
                            options.parsedResponse.addDependencies)
    /\ UNCHANGED <<options, fsys, cursor, writtenFiles, renamedFiles, deletedFiles,
                   errors, trace, touched, joinedPaths, pathVars, procVars, tagVars>>

\* applyFileChanges is called on the project root /r with at most MaxOps of
\* the candidates.
InitApply ==
    /\ appPath = <<"/", "r">>
    /\ relativePath = <<>>
    /\ joined = NotJoined
    /\ options \in {ApplyOptions(chosen, cb.throwing, cb.uploads) :
                       chosen \in {c \in SUBSET (1..Len(Candidates)) :
                                      Cardinality(c) <= MaxOps},
                       cb \in CallerCallbacks}
    /\ fsys = InitialFiles
    /\ cursor = 1
    /\ writtenFiles = <<>>
    /\ renamedFiles = <<>>
    /\ deletedFiles = <<>>
    /\ errors = <<>>
    /\ manifest = NoManifest
    /\ trace = <<>>
    /\ touched = {}
    /\ joinedPaths = {}
    /\ ProcessIdle

NextApply ==
    \/ DeleteFile
    \/ RenameFile
    \/ WriteFile
    \/ ReturnResult

SpecApply ==
    InitApply /\ [][NextApply]_vars

(***************************************************************************)
(* Properties.                                                             *)
(***************************************************************************)
IsPrefix(a, b) ==
    Len(a) <= Len(b) /\ SubSeq(b, 1, Len(a)) = a

\* The chunk observer leaves the document as it is.
Unobserved ==
    onChunk \in {"none", "identity"}

\* The turn's document: the accumulator of streamResponse during the first
\* stream, fullResponse of process from then on.
Document ==
    IF phase = "initial" /\ pc \in {"invoke", "next", "observer"}
    THEN srFullResponse
    ELSE fullResponse

\* C1: after every continuation round the document is the document before
\* the round followed by the round's multiplexed output.
C1_RoundAppendsOutput ==
    (Unobserved /\ lastRound.n > 0)
        => lastRound.after = lastRound.before \o lastRound.output

\* C2: with no observer, or one that returns its input, every step of
\* streaming and of continuation only appends to the turn's document.
C2_AppendOnly ==
    [][(Unobserved /\ pc' # "failed" /\ ~wasAborted') => IsPrefix(Document, Document')]_vars

\* C3: when the abort signal is set while a producer stream is consumed,
\* process returns, without throwing, a result with wasAborted = true.
C3_AbortedResult ==
    (abortedMidStream /\ pc \in {"done", "failed"})
        => (result.returned /\ ~thrown /\ result.wasAborted)

\* C4: the fullResponse of a turn cancelled mid-stream is the multiplexed
\* text of the fragments processed before the abort was observed.
C4_PartialOutputKept ==
    (Unobserved /\ abortedMidStream /\ pc = "done")
        => result.fullResponse = emittedBefore \o emitted

C6_BoundedContinuation ==
    /\ [](/\ continuationAttempts <= config.maxContinuationAttempts
          /\ invocations <= 1 + config.maxContinuationAttempts
          /\ (pc # "idle" => invocations = 1 + continuationAttempts))
    /\ [][continuationAttempts' # continuationAttempts
            => /\ continuationAttempts' = continuationAttempts + 1
               /\ hasUnclosedWriteTag(fullResponse')
               /\ ~aborted]_vars

\* C6: a turn with the default ceiling that has used every round.
C6_Witness ==
    /\ pc = "done"
    /\ config.maxContinuationAttempts = DefaultMaxContinuationAttempts
    /\ continuationAttempts = config.maxContinuationAttempts
    /\ invocations = 1 + config.maxContinuationAttempts

\* C7: a returned result carries the Truncation Detector's verdict on, and
\* parseResponse of, its own fullResponse; a turn that ends at the ceiling
\* with the document still truncated returns with wasTruncated = true.
C7_ResultOfFinalDocument ==
    /\ result.returned
          => /\ result.wasTruncated = hasUnclosedWriteTag(result.fullResponse)
             /\ result.parsedResponse = parseResponse(result.fullResponse)
    /\ (/\ pc = "done"
        /\ continuationAttempts = config.maxContinuationAttempts
        /\ hasUnclosedWriteTag(fullResponse))
          => (result.returned /\ ~thrown /\ result.wasTruncated)

\* C7: the ceiling is reached with the document still truncated.
C7_Witness ==
    /\ pc = "done"
    /\ config.maxContinuationAttempts > 0
    /\ continuationAttempts = config.maxContinuationAttempts
    /\ result.returned
    /\ result.wasTruncated
    /\ ~result.wasAborted
    /\ events[Len(events)] = "end"

\* The offsets of the Write opening markers of a document.
WriteOpenings(D) ==
    {i \in 1..Len(D) :
        /\ MatchAt(D, i, WriteOpen, FALSE)
        /\ \E j \in (i + Len(WriteOpen))..Len(D) : D[j] = ">"}

\* The offsets of the Write closing markers of a document.
WriteClosings(D) ==
    {j \in 1..Len(D) : MatchAt(D, j, WriteClose, FALSE)}

\* C8: hasUnclosedWriteTag is false without a Write opening marker, and
\* otherwise true exactly when no Write closing marker occurs after the offset
\* of the last Write opening marker.
C8_LastOpenAnyLaterClose ==
    detected.done
        => detected.unclosed =
              (/\ WriteOpenings(text) # {}
               /\ \A j \in WriteClosings(text) : j < Max(WriteOpenings(text)))

\* C8: a closed Write tag followed by an opened one.
C8_Witness ==
    /\ detected.done
    /\ detected.unclosed
    /\ WriteClosings(text) # {}

\* The transition table of the Multiplexer as the specification gives it:
\* answer is text-delta, reasoning is reasoning-delta.
SpecTableStep(inside, part) ==
    IF part.type = "reasoning-delta"
    THEN [out |-> (IF inside THEN <<>> ELSE ThinkOpen) \o escapeDyadTags(part.text),
          inside |-> TRUE]
    ELSE IF inside
    THEN [out |-> ThinkClose \o part.text, inside |-> FALSE]
    ELSE [out |-> IF part.type = "text-delta" THEN part.text ELSE <<>>,
          inside |-> FALSE]

RECURSIVE SpecTableFold(_, _)
SpecTableFold(inside, parts) ==
    IF Len(parts) = 0 THEN <<>>
    ELSE SpecTableStep(inside, Head(parts)).out
         \o SpecTableFold(SpecTableStep(inside, Head(parts)).inside, Tail(parts))

\* C9 as written: the text streamResponse has produced when a stream is
\* exhausted is the fold of the specification's table over its fragments.
C9_SpecTableFold ==
    (Unobserved /\ ~aborted /\ pc = "next" /\ stream = <<>>)
        => srFullResponse = SpecTableFold(FALSE, consumed)

\* The table as amended: a fragment of a kind other than reasoning-delta,
\* reasoning-start and reasoning-end closes an open reasoning block; an answer
\* or reasoning-delta fragment emits its text only if that is not empty; every
\* other fragment emits nothing more and leaves the state as it is.
AmendedTableStep(inside, part) ==
    IF part.type = "reasoning-delta"
    THEN (IF part.text = <<>> THEN [out |-> <<>>, inside |-> inside]
          ELSE [out |-> (IF inside THEN <<>> ELSE ThinkOpen) \o escapeDyadTags(part.text),
                inside |-> TRUE])
    ELSE IF part.type \in {"reasoning-start", "reasoning-end"}
    THEN [out |-> <<>>, inside |-> inside]
    ELSE [out |-> (IF inside THEN ThinkClose ELSE <<>>)
                  \o (IF part.type = "text-delta" THEN part.text ELSE <<>>),
          inside |-> FALSE]

RECURSIVE AmendedTableFold(_, _)
AmendedTableFold(inside, parts) ==
    IF Len(parts) = 0 THEN <<>>
    ELSE AmendedTableStep(inside, Head(parts)).out
         \o AmendedTableFold(AmendedTableStep(inside, Head(parts)).inside, Tail(parts))

\* C9 as amended: at every fragment boundary the text streamResponse has
\* produced is the fold of the amended table over the fragments processed; so
\* [reasoning a, reasoning b, answer c] yields open a b close c, [answer x] yields x.
C9_AmendedTableFold ==
    (Unobserved /\ pc = "next")
        => /\ srFullResponse = AmendedTableFold(FALSE, consumed)
           /\ consumed = <<Reasoning(<<"a">>), Reasoning(<<"b">>), Answer(<<"c">>)>>
                 => srFullResponse = ThinkOpen \o <<"a", "b">> \o ThinkClose \o <<"c">>
           /\ consumed = <<Answer(<<"x">>)>> => srFullResponse = <<"x">>

\* C9: the stream [reasoning a, reasoning b, answer c] has been multiplexed.
C9_Witness ==
    /\ onChunk = "none"
    /\ pc = "next"
    /\ stream = <<>>
    /\ consumed = <<Reasoning(<<"a">>), Reasoning(<<"b">>), Answer(<<"c">>)>>
    /\ srFullResponse = ThinkOpen \o <<"a", "b">> \o ThinkClose \o <<"c">>

\* C10: a document made of reasoning fragments only yields no record and no
\* Write opening marker.
C10_ReasoningNeverExtracted ==
    (/\ Unobserved
     /\ phase = "initial"
     /\ pc = "next"
     /\ \A k \in 1..Len(consumed) : consumed[k].type = "reasoning-delta")
        => /\ ~hasUnclosedWriteTag(srFullResponse)
           /\ parseResponse(srFullResponse) = parseResponse(<<>>)

\* C11: the chunk observer is called after every non-empty emission, in the
\* first stream and in every continuation round, with the turn's accumulated
\* document and the chunk just emitted.
C11_ObserverSeesTurnDocument ==
    onChunk = "identity"
        => /\ observed.calls = emissions.count
           /\ observed.calls > 0
                 => /\ observed.incrementalChunk = emissions.chunk
                    /\ observed.fullResponse = emittedBefore \o emitted

\* The number of events of one type.
CountEvents(type) ==
    Cardinality({k \in 1..Len(events) : events[k] = type})

\* C19: a producer failure with the signal not set gives exactly one error
\* event, no end event, and a throw; a failure caught with the signal set
\* gives no error event and a returned result with wasAborted = true.
C19_ProducerFailure ==
    /\ [](/\ thrown <=> pc = "failed"
          /\ pc = "failed"
                => /\ ~result.returned
                   /\ ~wasAborted
                   /\ CountEvents("error") = 1
                   /\ CountEvents("end") = 0
                   /\ events[Len(events)] = "error"
          /\ wasAborted
                => /\ pc = "done"
                   /\ result.returned
                   /\ result.wasAborted
                   /\ CountEvents("error") = 0)
    /\ [][/\ (pc' = "failed" /\ pc # "failed") => (~aborted /\ pc \in {"invoke", "next"})
          /\ (wasAborted' /\ ~wasAborted) => (aborted /\ pc \in {"invoke", "next"})]_vars

\* C19: the producer has failed in a continuation round, after some output.
C19_Witness ==
    /\ pc = "failed"
    /\ phase = "continuation"
    /\ emitted # <<>>
    /\ events = <<"start", "error">>

\* C20: runAutoFixLoop is called at most once in a turn, and only with
\* enableAutoFix in build mode; otherwise autoFixAttempts is 0; what it returns
\* is the result's fullResponse and autoFixAttempts.
C20_AutoFixStage ==
    /\ [](/\ autoFixRuns <= 1
          /\ pc = "autofix" => autoFixRuns = 0
          /\ (pc = "autofix" \/ autoFixRuns = 1)
                => (config.enableAutoFix /\ config.chatMode = "build")
          /\ (result.returned /\ autoFixRuns = 0) => result.autoFixAttempts = 0)
    /\ [][autoFixRuns' # autoFixRuns
            => /\ pc = "autofix"
               /\ pc' = "done"
               /\ result'.returned
               /\ result'.fullResponse = runAutoFixLoop(fullResponse).fullResponse
               /\ result'.autoFixAttempts = runAutoFixLoop(fullResponse).attempts]_vars

\* C20: the stage has run after a continuation round.
C20_Witness ==
    /\ pc = "done"
    /\ autoFixRuns = 1
    /\ continuationAttempts > 0
    /\ result.returned

\* C18: on every document, cut off or not, a Write opening marker without a
\* closing marker of its own yields no record: no Write record has a body that
\* runs over a later Write opening marker.
C18_RecordsOfClosedTagsOnly ==
    detected.done
        => \A k \in 1..Len(detected.parsed.writeTags) :
              WriteOpenings(detected.parsed.writeTags[k].content) = {}

\* The normalised segments of a path.
SegmentsOf(p) ==
    NormalizeSegments(Split(p, "/"), <<>>)

\* The path p is the directory root or lies below it.
Inside(root, p) ==
    IsPrefix(SegmentsOf(pathResolve(root, <<>>)), SegmentsOf(p))

\* C15: safeJoin fails or returns a path that is the root or a descendant of
\* the root, not a path in a sibling whose name the root's name begins.
C15_JoinedInsideRoot ==
    (joined.done /\ joined.result.has) => Inside(appPath, joined.result.val)

\* The number of iterations of one kind before iteration i.
AttemptedBefore(i, kind) ==
    Cardinality({k \in 1..(i - 1) : trace[k].op.kind = kind})

\* No rename is attempted before every delete has been, no write before
\* every rename and every delete has been.
FixedOrder ==
    \A i \in 1..Len(trace) :
        /\ trace[i].op.kind = "delete"
              => AttemptedBefore(i, "rename") + AttemptedBefore(i, "write") = 0
        /\ trace[i].op.kind = "rename"
              => /\ AttemptedBefore(i, "delete")
                        = Len(options.parsedResponse.deletePaths)
                 /\ AttemptedBefore(i, "write") = 0
        /\ trace[i].op.kind = "write"
              => /\ AttemptedBefore(i, "delete")
                        = Len(options.parsedResponse.deletePaths)
                 /\ AttemptedBefore(i, "rename")
                        = Len(options.parsedResponse.renameTags)

\* The elements of a list.
Range(list) ==
    {list[k] : k \in 1..Len(list)}

\* Delete d and rename r of the ParsedResponse name the same source path, and
\* it exists when applyFileChanges is called.
SharedSource(d, r) ==
    /\ options.parsedResponse.renameTags[r].from = options.parsedResponse.deletePaths[d]
    /\ safeJoin(appPath, options.parsedResponse.deletePaths[d]).has
    /\ Exists(InitialFiles, safeJoin(appPath, options.parsedResponse.deletePaths[d]).val)

\* The messages of a manifest's error that are about the operation op.
MessagesAbout(op) ==
    IF manifest.error.has
    THEN {k \in 1..Len(manifest.error.val) : manifest.error.val[k] = FailedTo(op)}
    ELSE {}

C13_BatchCompletes ==
    manifest.returned
        => /\ Len(trace) = Len(Operations(options.parsedResponse))
           /\ \A i \in 1..Len(trace) :
                 trace[i].caught => MessagesAbout(trace[i].op) # {}

\* C14: in every manifest returned, hasChanges is true exactly when one of
\* the three lists is non-empty.
C14_HasChangesIffListed ==
    manifest.returned
        => (manifest.hasChanges
              <=> (\/ manifest.writtenFiles # <<>>
                   \/ manifest.renamedFiles # <<>>
                   \/ manifest.deletedFiles # <<>>))

\* C16: every path given to node:fs is a path safeJoin returned for the root
\* (for the creation of a directory: the directory of such a path), and an
\* operation that fails on a path escape does not end the batch.
C16_EveryPathThroughSafeJoin ==
    /\ \A t \in touched :
          \/ t.path \in joinedPaths
          \/ t.call = "mkdirSync" /\ \E q \in joinedPaths : t.path = pathDirname(q)
    /\ \A i \in 1..Len(trace) :
          trace[i].cause = "escape" => ~trace[i].escaped

\* The number of deletes, or of renames, that node:fs has performed.
Performed(kind) ==
    Cardinality({i \in 1..Len(trace) :
                    trace[i].op.kind = kind /\ trace[i].status = "done"})

C25_ObserverValueIsTheDocument ==
    /\ [](( /\ pc = "next"
            /\ emitted # <<>>
            /\ (phase = "continuation" \/ onChunk # "none"))
              => srFullResponse = pending)
    /\ [][/\ (pc = "observer" /\ pc' # "observer") => srFullResponse' = pending
          /\ (pc = "next" /\ Len(consumed') > Len(consumed))
                => srFullResponse' = srFullResponse
                                     \o SubSeq(emitted', Len(emitted) + 1, Len(emitted'))
          /\ (pc = "next" /\ phase = "initial" /\ result'.returned /\ ~wasAborted')
                => result'.fullResponse = srFullResponse]_vars

\* C25: an observer that appends a mark to what it is given has been called
\* three times, each time on what it returned before.
C25_Witness ==
    /\ onChunk = "mark"
    /\ result.returned
    /\ consumed = <<Reasoning(<<"a">>), Reasoning(<<"b">>), Answer(<<"c">>)>>
    /\ result.fullResponse
          = ThinkOpen \o <<"a", "!", "b", "!">> \o ThinkClose \o <<"c", "!">>

\* C26: once the abort signal is set no further fragment is processed: no
\* chunk is emitted and the observer is not called again; the document of
\* streamResponse changes at most by the value the observer returns for the
\* fragment that was being processed when the signal was set.
C26_NoFragmentAfterAbort ==
    [][aborted
         => /\ Len(consumed') <= Len(consumed)
            /\ emissions' = emissions
            /\ observed' = observed
            /\ srFullResponse' # srFullResponse
                  => \/ pc = "observer" /\ srFullResponse' = pending
                     \/ srFullResponse' = <<>>]_vars

\* C26: the signal was set while the observer was awaited for a fragment; the
\* fragments after it were left unprocessed.
C26_Witness ==
    /\ aborted
    /\ abortedMidStream
    /\ result.returned
    /\ stream # <<>>
    /\ consumed # <<>>
    /\ onChunk = "mark"
    /\ result.fullResponse = emitted \o <<"!">>

\* The indices at which the literal pat occurs in s.
Occurrences(s, pat) ==
    {j \in 1..Len(s) : MatchAt(s, j, pat, FALSE)}

\* C29: in the fullResponse process returns every reasoning open marker is
\* followed by a close marker before the next open marker or the end.
C29_ReasoningMarkersBalanced ==
    result.returned
        => \A i \in Occurrences(result.fullResponse, ThinkOpen) :
              \E j \in Occurrences(result.fullResponse, ThinkClose) :
                 /\ j > i
                 /\ \A k \in Occurrences(result.fullResponse, ThinkOpen) :
                       k > i => k > j

\* C30: a call of process that has completed has emitted start and then
\* exactly one terminal event, end if it returned a result and error if it
\* threw; never both.
C30_StartThenOneTerminalEvent ==
    /\ pc = "done" => events = <<"start", "end">>
    /\ pc = "failed" => events = <<"start", "error">>
    /\ Len(events) > 0 => events[1] = "start"
    /\ CountEvents("start") <= 1
    /\ CountEvents("end") + CountEvents("error") <= 1

\* C21: every call of process completes, in exactly one of three ways: it
\* returns with wasAborted false, returns with wasAborted true, or throws, and
\* nothing happens after that; the first stream, the continuation rounds and
\* the auto-fix stage follow each other in this order, and streamText is
\* called again only when the stream of the call before is exhausted.
C21_TerminatesInOneOutcome ==
    /\ <>(pc \in {"done", "failed"})
    /\ [](/\ pc = "done" => (result.returned /\ ~thrown
                             /\ result.wasAborted = wasAborted)
          /\ pc = "failed" => (thrown /\ ~result.returned /\ ~wasAborted)
          /\ (result.returned \/ thrown) => pc \in {"done", "failed"})
    /\ [][/\ pc \in {"done", "failed"} => UNCHANGED procVars
          /\ phase = "continuation" => phase' = "continuation"
          /\ pc = "autofix" => (pc' \in {"autofix", "done"} /\ invocations' = invocations)
          /\ invocations' # invocations
                => /\ invocations' = invocations + 1
                   /\ autoFixRuns = 0
                   /\ \/ pc = "idle" /\ phase' = "initial"
                      \/ pc = "next" /\ stream = <<>> /\ phase' = "continuation"]_vars

\* C21: a turn has gone through the first stream, two continuation rounds
\* and the auto-fix stage, and has returned.
C21_Witness ==
    /\ pc = "done"
    /\ invocations = 3
    /\ autoFixRuns = 1
    /\ result.returned
    /\ ~result.wasAborted

\* The records of the pieces of a list, in order: F gives those of one piece.
RECURSIVE Flat(_)
Flat(ls) ==
    IF Len(ls) = 0 THEN <<>> ELSE Head(ls) \o Flat(Tail(ls))

RecordsOf(l, F(_)) ==
    Flat([k \in 1..Len(l) |-> F(l[k])])

\* The tokens of s: the longest runs of characters that are not white space.
RECURSIVE Tokens(_)
Tokens(s) ==
    IF s = <<>> THEN <<>>
    ELSE IF s[1] \in WhiteSpace THEN Tokens(Tail(s))
    ELSE With(Least({j \in 1..Len(s) : s[j] \in WhiteSpace}), LAMBDA w :
         IF w = 0 THEN <<s>>
         ELSE <<SubSeq(s, 1, w - 1)>> \o Tokens(SubSeq(s, w, Len(s))))

TokensOfTag(p) ==
    IF p.kind = "add-dependency" THEN Tokens(p.attr.val) ELSE <<>>

\* C23: the packages extracted from a document are the tokens of the
\* packages attribute of each DependencyAdd tag, split at any white space
\* (space, tab, line break), empty tokens dropped, the tags taken in the
\* order they occur and duplicates kept.
C23_PackagesSplitOnWhitespace ==
    detected.done => detected.parsed.addDependencies = RecordsOf(pieces, TokensOfTag)

\* The pieces of a list that are tags of the kind given, in order.
OfKind(l, kind) ==
    SelectSeq(l, LAMBDA p : p.kind = kind)

\* C24: the summary of a parsed document is the body of the first Summary
\* tag of the document, trimmed, whatever Summary tags follow it; a document
\* with no Summary tag has none (null).
C24_FirstSummaryOnly ==
    detected.done
        => detected.parsed.chatSummary
             = IF OfKind(pieces, "chat-summary") = <<>> THEN None
               ELSE Some(Trim(OfKind(pieces, "chat-summary")[1].body))

\* C24: a document with two Summary tags of different bodies has been
\* parsed, and the summary returned is that of the first, trimmed.
C24_Witness ==
    /\ detected.done
    /\ Len(OfKind(pieces, "chat-summary")) = 2
    /\ pieces[1].kind = "prose"
    /\ OfKind(pieces, "chat-summary")[1].body = <<" ", "s", "\n">>
    /\ OfKind(pieces, "chat-summary")[2].body = <<"t">>
    /\ detected.parsed.chatSummary = Some(<<"s">>)

\* The record a Write or SearchReplace tag stands for: none without a path.
PathRecordOf(p) ==
    IF p.attr.has
    THEN <<[path |-> normalizePath(p.attr.val),
            content |-> stripCodeFences(Trim(p.body)),
            description |-> None]>>
    ELSE <<>>

WriteRecordOf(p) ==
    IF p.kind = "write" THEN PathRecordOf(p) ELSE <<>>

SearchReplaceRecordOf(p) ==
    IF p.kind = "search-replace" THEN PathRecordOf(p) ELSE <<>>

SqlRecordOf(p) ==
    IF p.kind = "execute-sql"
    THEN <<[content |-> stripCodeFences(Trim(p.body)), description |-> None]>>
    ELSE <<>>

CommandRecordOf(p) ==
    IF p.kind = "command" /\ p.attr.val \in {CmdRebuild, CmdRestart, CmdRefresh}
    THEN <<p.attr.val>>
    ELSE <<>>

DeleteRecordOf(p) ==
    IF p.kind = "delete" THEN <<normalizePath(p.attr.val)>> ELSE <<>>

IsFenceLine(line) ==
    Len(line) >= 3 /\ SubSeq(line, 1, 3) = Fence

\* The lines of body without its first line if that is a fence line and
\* without its last line if that is one; all other lines as they are.
KeptLines(marked) ==
    [k \in 1..Len(marked) |-> marked[k].line]

FenceStripped(body) ==
    With(Split(body, "\n"), LAMBDA lines :
        Join(KeptLines(SelectSeq([k \in 1..Len(lines) |->
                                     [line |-> lines[k],
                                      kept |-> ~((k = 1 \/ k = Len(lines))
                                                 /\ IsFenceLine(lines[k]))]],
                                 LAMBDA e : e.kept)),
             "\n"))

\* The contents of the Write, SearchReplace and RawQuery records of a list
\* of pieces, Strip being what is done to a body.
ContentsOf(l, Strip(_)) ==
    [k \in 1..Len(l) |-> Strip(l[k].body)]

RecordedTags(l) ==
    SelectSeq(l, LAMBDA p : \/ p.kind \in {"write", "search-replace"} /\ p.attr.has
                            \/ p.kind = "execute-sql")

RecordedContents(parsed, l) ==
    [k \in 1..Len(RecordedTags(l)) |->
        With(RecordedTags(l)[k].kind, LAMBDA kind :
        With(Len(OfKind(SubSeq(RecordedTags(l), 1, k), kind)), LAMBDA nth :
            IF kind = "write" THEN parsed.writeTags[nth].content
            ELSE IF kind = "search-replace" THEN parsed.searchReplaceTags[nth].content
            ELSE parsed.sqlQueries[nth].content))]

\* C28 as stated: the content of a record is the body of its tag without a
\* leading and without a trailing fence line, and the body itself when it
\* has no fence line.
C28_SpecContentIsBodyWithoutFences ==
    detected.done
        => RecordedContents(detected.parsed, pieces)
             = ContentsOf(RecordedTags(pieces), FenceStripped)

TrimmedThenStripped(body) ==
    FenceStripped(Trim(body))

\* C28: the content of a Write, SearchReplace or RawQuery record is the body
\* of its tag trimmed of the white space around it and then without its first
\* line if that starts with the fence marker and without its last line if
\* that starts with it; the lines between stay as they are, and a trimmed
\* body without fence lines is the content.
C28_ContentIsTrimmedBodyWithoutFences ==
    detected.done
        => RecordedContents(detected.parsed, pieces)
             = ContentsOf(RecordedTags(pieces), TrimmedThenStripped)

\* C28: a Write tag whose body is a fenced block on lines of its own
\* (line break, fence, z, fence, line break) has been parsed; its content is z.
C28_Witness ==
    /\ detected.done
    /\ Len(pieces) = 1
    /\ pieces[1].kind = "write"
    /\ pieces[1].body = <<"\n">> \o Fence \o <<"\n", "z", "\n">> \o Fence \o <<"\n">>
    /\ Len(detected.parsed.writeTags) = 1
    /\ detected.parsed.writeTags[1].content = <<"z">>

\* What a call of process has of its own, t being its parameters and local
\* variables: the chunks of its stream are the fold of the multiplexer over
\* the parts it has consumed itself, the counter counts its own rounds, its
\* document carries a mark only if its own observer marks, its observer is
\* called only for its own chunks, and it is reported aborted only if its
\* own signal was set.
OwnTurn(t) ==
    /\ t.emitted = AmendedTableFold(FALSE, t.consumed)
    /\ t.continuationAttempts = (IF t.invocations = 0 THEN 0 ELSE t.invocations - 1)
    /\ t.onChunk = "none"
          => /\ t.observed = NoCall
             /\ t.srFullResponse = t.emitted
             /\ "!" \notin (Range(t.fullResponse) \cup Range(t.result.fullResponse))
    /\ t.onChunk = "mark" => t.observed.calls = t.emissions.count
    /\ ~t.aborted => (~t.wasAborted /\ ~t.abortObserved /\ ~t.result.wasAborted)
    /\ t.result.returned => t.result.fullResponse = t.fullResponse

\* C22: with two calls of process interleaved on one instance, each call
\* keeps what is its own whatever the other does, and a step of one call
\* leaves the parameters and local variables of the other as they are: they
\* change hands at a switch only, unaltered.
C22_TurnsAreIndependent ==
    /\ [](suspended.turn # 0 => (OwnTurn(Running) /\ OwnTurn(suspended)))
    /\ [][suspended' # suspended => (suspended' = Running /\ Running' = suspended)]_vars

\* C22: the first call is inside a reasoning block of its stream, suspended,
\* with its signal set, while the second call, which has no observer and whose
\* signal is not set, has returned a document.
C22_Witness ==
    /\ suspended.turn = 1
    /\ suspended.inThinkingBlock
    /\ suspended.aborted
    /\ suspended.pc = "next"
    /\ pc = "done"
    /\ result.returned
    /\ ~result.wasAborted
    /\ consumed # <<>>
    /\ invocations = 2

\* The offsets of the Write opening markers of a document that carry a path:
\* the text between the marker's name and its ">" holds path="..." .
WriteOpeningsWithPath(D) ==
    {i \in WriteOpenings(D) :
        AttrValue(SubSeq(D, i + Len(WriteOpen), FirstOf(D, ">", i + Len(WriteOpen)) - 1),
                  PathAttr).has}

\* C31: whenever hasUnclosedWriteTag(D) is false, getWriteTags(D) returns as
\* many Write records as D has Write opening markers with a path: each of
\* them is closed and gives a record of its own.
C31_DetectorAndExtractorAgree ==
    (detected.done /\ ~detected.unclosed)
        => Len(detected.parsed.writeTags) = Cardinality(WriteOpeningsWithPath(text))

\* The entry the step appends to the trace, when the step is an iteration of
\* one of the three loops.
Iterates ==
    Len(trace') = Len(trace) + 1

Applied ==
    trace'[Len(trace')]

\* The iteration skipped its operation (absent path or source) or rejected it
\* (a path that fails safeJoin).
SkippedOrRejected ==
    Iterates /\ (Applied.status = "missing" \/ Applied.cause = "escape")

\* C32, as the specification states it: an iteration that skips its operation
\* (a delete of an absent path, a rename of an absent source) or rejects it
\* (a path that fails safeJoin) leaves the filesystem as it was: no file and
\* no directory is created, moved or removed.
C32_SpecSkippedLeavesFilesystem ==
    [][SkippedOrRejected => fsys' = fsys]_vars

\* C32, amended: an iteration that skips or rejects its operation creates,
\* moves and removes no file and removes no directory; the only directories it
\* may create are the missing directories above the target of a rename whose
\* source is absent, and a delete of an absent path and an operation whose
\* path fails safeJoin leave the filesystem as it was.
C32_SkippedLeavesFiles ==
    [][SkippedOrRejected =>
          /\ fsys'.files = fsys.files
          /\ fsys.dirs \subseteq fsys'.dirs
          /\ IF Applied.op.kind = "rename" /\ Applied.status = "missing"
             THEN fsys'.dirs \subseteq
                      fsys.dirs \cup AncestorsOf(pathDirname(safeJoin(appPath, Applied.op.to).val))
             ELSE fsys' = fsys]_vars

\* C32: a delete of an absent path, a delete of a path outside the root and a
\* rename of an absent source have run; the files are those the batch began
\* with, and the only new directory is the one above the rename's target.
C32_Witness ==
    /\ Len(trace) = 3
    /\ trace[1].op = DeleteOp(<<"n">>) /\ trace[1].status = "missing"
    /\ trace[2].op = DeleteOp(<<".", ".", "/", "x">>) /\ trace[2].cause = "escape"
    /\ trace[3].op = RenameOp(<<"n">>, <<"m", "/", "y">>) /\ trace[3].status = "missing"
    /\ fsys.files = InitialFiles.files
    /\ fsys.dirs = InitialFiles.dirs \cup { <<"/", "r", "/", "m">> }
====
